---- MODULE Spec2Model ----
(***************************************************************************)
(* Model of the banco application of Proyecto-RDHN: savings accounts and   *)
(* the transaction ledger (models.py, services.py, views.py), the mutual   *)
(* fund kardex (models_fondo_mutuo.py, services.py, views_fondo_mutuo.py), *)
(* the loan life cycle with its guarantors (views.py, models.py, forms.py)  *)
(* and the penalty accrual of installments (models.py,                     *)
(* tareas_banco_diarias.py).                                               *)
(*                                                                         *)
(* Money is an integer number of lempiras in the account and fund parts.   *)
(* Time (ahora) is counted in hours; a date is ahora \div HorasPorDia.     *)
(***************************************************************************)
EXTENDS Integers, Sequences, FiniteSets, Bags, TLC

VARIABLES
    cuentas,        \* CUENTA_AHORRO rows: id -> [saldo_actual, fecha_cierre, es_retirable]
    transacciones,  \* TRANSACCION rows, in insertion order (the id is the index)
    bitacora,       \* BITACORA_AUDITORIA rows, as a bag of (accion, tabla)
    ahora,          \* timezone.now(), in hours
    sesiones,       \* requests in flight: the CuentaAhorro instance each view loaded
    resultado,      \* outcome of the last operation: what the caller got back
    fondos,         \* FONDO_MUTUO rows: periodo -> row
    movimientos,    \* MOVIMIENTO_FONDO_MUTUO rows, in insertion order
    solicitudes,    \* SOLICITUD_AYUDA_MUTUA rows, in insertion order
    prestamos,      \* PRESTAMO rows: id -> row
    cuotas,         \* CUOTA_PRESTAMO rows: prestamo id -> sequence by numero_cuota
    pagos,          \* PAGO_PRESTAMO rows, in insertion order
    garantes        \* GARANTE rows, in insertion order

varsCuentas == <<cuentas, sesiones>>
varsFondo == <<fondos, movimientos, solicitudes>>
varsPrestamo == <<prestamos, cuotas, pagos, garantes>>

vars == <<cuentas, transacciones, bitacora, ahora, sesiones, resultado,
          fondos, movimientos, solicitudes, prestamos, cuotas, pagos, garantes>>

\* what the account operations never touch
fueraDeCuentas == <<varsFondo, varsPrestamo>>

----------------------------------------------------------------------------
(* Bounds of the model *)

MaxMonto == 2          \* amounts offered to deposit / withdraw: 0..MaxMonto
MaxSaldo == 3          \* deposits that would exceed this balance are not offered
MaxTrans == 3          \* ledger rows
MaxSaltosHora == 1     \* one-hour clock steps taken after each 30-day jump

(* Program constants *)

DIAS_MAX_REVERSO == 30
HorasPorDia == 24

NULL == 0 - 1

Cuentas == {1, 2}
Procesos == {1, 2}
Montos == 0..MaxMonto

\* TipoCuenta.es_retirable of the two account types in use
EsRetirable(a) == a = 1

----------------------------------------------------------------------------
(* Helpers *)

Hoy == ahora \div HorasPorDia

\* Dates are day numbers; day 0 is the date Epoca. The calendar below turns a
\* day number into a datetime.date and back.
Epoca == [anio |-> 2023, mes |-> 1, dia |-> 1]

EsBisiesto(anio) == (anio % 4 = 0 /\ anio % 100 # 0) \/ anio % 400 = 0

DiasDelMes(anio, mes) ==
    IF mes = 2 THEN (IF EsBisiesto(anio) THEN 29 ELSE 28)
    ELSE IF mes \in {4, 6, 9, 11} THEN 30
    ELSE 31

\* the month after (anio, mes), as <<anio, mes>>
MesSiguiente(anio, mes) == IF mes = 12 THEN <<anio + 1, 1>> ELSE <<anio, mes + 1>>

MesAnterior(anio, mes) == IF mes = 1 THEN <<anio - 1, 12>> ELSE <<anio, mes - 1>>

RECURSIVE FechaDesde(_, _, _)
\* the date n days after the first day of month (anio, mes); n may be negative
FechaDesde(anio, mes, n) ==
    IF n < 0
    THEN LET ant == MesAnterior(anio, mes)
         IN  FechaDesde(ant[1], ant[2], n + DiasDelMes(ant[1], ant[2]))
    ELSE IF n >= DiasDelMes(anio, mes)
    THEN LET sig == MesSiguiente(anio, mes)
         IN  FechaDesde(sig[1], sig[2], n - DiasDelMes(anio, mes))
    ELSE [anio |-> anio, mes |-> mes, dia |-> n + 1]

\* the datetime.date of day number d
DiaAFecha(d) == FechaDesde(Epoca.anio, Epoca.mes, d + Epoca.dia - 1)

RECURSIVE DiasHasta(_, _)
\* days from the first day of the month of Epoca to the first day of (anio, mes)
DiasHasta(anio, mes) ==
    IF anio = Epoca.anio /\ mes = Epoca.mes THEN 0
    ELSE IF anio * 12 + mes > Epoca.anio * 12 + Epoca.mes
    THEN LET ant == MesAnterior(anio, mes)
         IN  DiasHasta(ant[1], ant[2]) + DiasDelMes(ant[1], ant[2])
    ELSE LET sig == MesSiguiente(anio, mes)
         IN  DiasHasta(sig[1], sig[2]) - DiasDelMes(anio, mes)

\* the day number of a datetime.date
FechaADia(f) == DiasHasta(f.anio, f.mes) + f.dia - Epoca.dia

\* fecha + relativedelta(months=1): the same day of the next month, or that
\* month's last day when it is shorter
SumarMes(d) ==
    LET f == DiaAFecha(d)
        sig == MesSiguiente(f.anio, f.mes)
        ultimo == DiasDelMes(sig[1], sig[2])
    IN  FechaADia([anio |-> sig[1], mes |-> sig[2],
                   dia |-> IF f.dia > ultimo THEN ultimo ELSE f.dia])

\* hoy.strftime('%Y%m'), as the number YYYYMM
Periodo(d) == DiaAFecha(d).anio * 100 + DiaAFecha(d).mes

RECURSIVE SumaIdx(_, _)
\* Sum('monto') over the rows of s whose index is in I
SumaIdx(s, I) ==
    IF I = {} THEN 0
    ELSE LET i == CHOOSE x \in I : TRUE
         IN  s[i].monto + SumaIdx(s, I \ {i})

Resultado(op, obj, monto, error) ==
    [op |-> op, obj |-> obj, monto |-> monto, ok |-> (error = ""), error |-> error]

\* Transaccion.objects.create(...) for an account or a loan
NuevaTransaccion(cuenta, prestamo, tipo, monto, anterior, nuevo, reversada) ==
    [cuenta_ahorro |-> cuenta, prestamo |-> prestamo, tipo_transaccion |-> tipo,
     monto |-> monto, saldo_anterior |-> anterior, saldo_nuevo |-> nuevo,
     estado |-> "NULL", transaccion_reversada |-> reversada,
     fecha_transaccion |-> ahora]

\* BitacoraAuditoria.objects.create(accion, tabla_afectada)
Auditoria(accion, tabla) == SetToBag({[accion |-> accion, tabla_afectada |-> tabla]})

\* signals.auditar_transaccion: one audit row per created DEPOSITO/RETIRO/REVERSO
AuditarTransaccion(tipo) ==
    IF tipo \in {"DEPOSITO", "RETIRO", "REVERSO"}
    THEN Auditoria("CREAR", "TRANSACCION")
    ELSE EmptyBag

----------------------------------------------------------------------------
(* Savings accounts: CuentaAhorro.depositar / retirar (models.py)          *)

SaldoTrasDeposito(saldo, monto) == saldo + monto

\* a withdrawal that adds the amount
SaldoTrasRetiroSuma(saldo, monto) == saldo + monto

SaldoTrasRetiro(saldo, monto) == saldo - monto

\* the checks of depositar, in the order of the code; "" when none fails
ErrorDepositar(monto) ==
    IF monto <= 0 THEN "monto_invalido" ELSE ""

\* retirar without the comparison of the balance with the amount
ErrorRetirarSinSaldo(obj, monto) ==
    IF monto <= 0 THEN "monto_invalido"
    ELSE IF ~obj.es_retirable /\ obj.fecha_cierre = NULL THEN "no_retirable"
    ELSE ""

\* the checks of retirar, in the order of the code; "" when none fails
ErrorRetirar(obj, monto) ==
    IF monto <= 0 THEN "monto_invalido"
    ELSE IF ~obj.es_retirable /\ obj.fecha_cierre = NULL THEN "no_retirable"
    ELSE IF obj.saldo_actual < monto THEN "saldo_insuficiente"
    ELSE ""

\* self.save(update_fields=['saldo_actual', ...]) followed by Transaccion.objects.create:
\* obj is the instance in memory, a the row it was loaded from
GuardarMovimiento(obj, a, tipo, monto, nuevo) ==
    /\ cuentas' = [cuentas EXCEPT ![a].saldo_actual = nuevo]
    /\ transacciones' = Append(transacciones,
            NuevaTransaccion(a, NULL, tipo, monto, obj.saldo_actual, nuevo, NULL))
    /\ bitacora' = bitacora (+) AuditarTransaccion(tipo)

\* CuentaAhorro.depositar on the instance obj of row a
CuentaDepositar(obj, a, monto) ==
    LET err == ErrorDepositar(monto) IN
    /\ resultado' = Resultado("depositar", a, monto, err)
    /\ IF err = ""
       THEN GuardarMovimiento(obj, a, "DEPOSITO", monto,
                              SaldoTrasDeposito(obj.saldo_actual, monto))
       ELSE UNCHANGED <<cuentas, transacciones, bitacora>>

\* CuentaAhorro.retirar on the instance obj of row a
CuentaRetirar(obj, a, monto) ==
    LET err == ErrorRetirar(obj, monto) IN
    /\ resultado' = Resultado("retirar", a, monto, err)
    /\ IF err = ""
       THEN GuardarMovimiento(obj, a, "RETIRO", monto,
                              SaldoTrasRetiro(obj.saldo_actual, monto))
       ELSE UNCHANGED <<cuentas, transacciones, bitacora>>

\* room left in the bounded ledger and balance for a movement of monto
CabeMovimiento(saldo, monto) ==
    monto > 0 => (Len(transacciones) < MaxTrans /\ saldo + monto <= MaxSaldo)

\* views.cuentas_depositar served without another request in between
Depositar(a, monto) ==
    /\ CabeMovimiento(cuentas[a].saldo_actual, monto)
    /\ CuentaDepositar(cuentas[a], a, monto)
    /\ UNCHANGED <<ahora, sesiones, fueraDeCuentas>>

\* views.cuentas_retirar served without another request in between
Retirar(a, monto) ==
    /\ CabeMovimiento(0, monto)
    /\ CuentaRetirar(cuentas[a], a, monto)
    /\ UNCHANGED <<ahora, sesiones, fueraDeCuentas>>

----------------------------------------------------------------------------
(* TransaccionService (services.py)                                        *)

\* the checks of post_transaccion for an account movement; "" when none fails
ErrorPostTransaccion(tipo, obj, monto) ==
    IF monto <= 0 THEN "monto_invalido"
    ELSE IF tipo = "RETIRO" /\ ~obj.es_retirable THEN "no_retirable"
    ELSE IF tipo = "RETIRO" /\ obj.saldo_actual < monto THEN "saldo_insuficiente"
    ELSE ""

\* TransaccionService.post_transaccion(tipo, monto, ..., cuenta_ahorro=row a)
\* for tipo DEPOSITO or RETIRO
PostTransaccion(tipo, a, monto) ==
    LET obj == cuentas[a]
        err == ErrorPostTransaccion(tipo, obj, monto)
        nuevo == IF tipo = "RETIRO" THEN obj.saldo_actual - monto
                 ELSE obj.saldo_actual + monto
    IN
    /\ CabeMovimiento(IF tipo = "RETIRO" THEN 0 ELSE obj.saldo_actual, monto)
    /\ resultado' = Resultado(IF tipo = "RETIRO" THEN "post_retiro" ELSE "post_deposito",
                              a, monto, err)
    /\ IF err = ""
       THEN /\ cuentas' = [cuentas EXCEPT ![a].saldo_actual = nuevo]
            /\ transacciones' = Append(transacciones,
                   NuevaTransaccion(a, NULL, tipo, monto, obj.saldo_actual, nuevo, NULL))
            /\ bitacora' = bitacora (+) AuditarTransaccion(tipo)
                   (+) Auditoria("CREAR", "TRANSACCION")
       ELSE UNCHANGED <<cuentas, transacciones, bitacora>>
    /\ UNCHANGED <<ahora, sesiones, fueraDeCuentas>>

\* (timezone.now() - fecha_transaccion).days
DiasTranscurridos(fecha) == (ahora - fecha) \div HorasPorDia

\* a reversal that adds the amount back whatever the type of the original
SaldoReversoSuma(tipo, saldo, monto) == saldo + monto

\* the balance the reversal of a DEPOSITO / RETIRO of monto leaves
SaldoReverso(tipo, saldo, monto) ==
    IF tipo = "DEPOSITO" THEN saldo - monto ELSE saldo + monto

\* a reversal that never looks at the resulting balance
SaldoQuedaNegativoNunca(nuevo) == FALSE

\* "Validar que el saldo no quede negativo"
SaldoQuedaNegativo(nuevo) == nuevo < 0

\* the checks of a reversal that does not look at the state of the original
ErrorReversarRepetible(id) ==
    IF id \notin 1..Len(transacciones) THEN "no_encontrada"
    ELSE LET t == transacciones[id] IN
         IF t.cuenta_ahorro = NULL THEN "solo_cuentas"
         ELSE IF t.tipo_transaccion \notin {"DEPOSITO", "RETIRO"}
              THEN "tipo_no_reversable"
         ELSE IF SaldoQuedaNegativo(SaldoReverso(t.tipo_transaccion,
                     cuentas[t.cuenta_ahorro].saldo_actual, t.monto))
              THEN "saldo_negativo"
         ELSE ""

\* the checks of reversar_transaccion, in the order of the code; "" when none fails
ErrorReversar(id) ==
    IF id \notin 1..Len(transacciones) THEN "no_encontrada"
    ELSE LET t == transacciones[id] IN
         IF t.estado = "REVERSADA" THEN "ya_reversada"
         ELSE IF DiasTranscurridos(t.fecha_transaccion) > DIAS_MAX_REVERSO
              THEN "muy_antigua"
         ELSE IF t.cuenta_ahorro = NULL THEN "solo_cuentas"
         ELSE IF t.tipo_transaccion \notin {"DEPOSITO", "RETIRO"}
              THEN "tipo_no_reversable"
         ELSE IF SaldoQuedaNegativo(SaldoReverso(t.tipo_transaccion,
                     cuentas[t.cuenta_ahorro].saldo_actual, t.monto))
              THEN "saldo_negativo"
         ELSE ""

\* the original row when the REVERSADA state is not applied
MarcarReversadaOmitida(t) == t

\* the original row after transaccion_original.save(update_fields=['estado'])
MarcarReversada(t) == [t EXCEPT !.estado = "REVERSADA"]

\* a counter-entry that does not name the row it reverses
TransaccionReversoSinReferencia(id, anterior, nuevo) ==
    NuevaTransaccion(transacciones[id].cuenta_ahorro, NULL, "REVERSO",
                     transacciones[id].monto, anterior, nuevo, NULL)

\* the REVERSO row created for the original row id
TransaccionReverso(id, anterior, nuevo) ==
    NuevaTransaccion(transacciones[id].cuenta_ahorro, NULL, "REVERSO",
                     transacciones[id].monto, anterior, nuevo, id)

\* TransaccionService.reversar_transaccion(id, motivo, usuario)
ReversarTransaccion(id) ==
    LET err == ErrorReversar(id) IN
    /\ err = "" => Len(transacciones) < MaxTrans
    /\ resultado' = Resultado("reversar", id, 0, err)
    /\ IF err = ""
       THEN LET t == transacciones[id]
                a == t.cuenta_ahorro
                anterior == cuentas[a].saldo_actual
                nuevo == SaldoReverso(t.tipo_transaccion, anterior, t.monto)
            IN
            /\ cuentas' = [cuentas EXCEPT ![a].saldo_actual = nuevo]
            /\ transacciones' = Append(
                   [transacciones EXCEPT ![id] = MarcarReversada(t)],
                   TransaccionReverso(id, anterior, nuevo))
            /\ bitacora' = bitacora (+) AuditarTransaccion("REVERSO")
                   (+) Auditoria("REVERSAR", "TRANSACCION")
       ELSE UNCHANGED <<cuentas, transacciones, bitacora>>
    /\ UNCHANGED <<ahora, sesiones, fueraDeCuentas>>

\* the checks of cierre_cuenta, in the order of the code; "" when none fails
ErrorCierre(obj) ==
    IF obj.saldo_actual # 0 THEN "saldo_no_cero"
    ELSE IF obj.fecha_cierre # NULL THEN "ya_cerrada"
    ELSE ""

\* CuentaAhorroService.cierre_cuenta(cuenta_id = a, usuario)
CierreCuenta(a) ==
    LET err == ErrorCierre(cuentas[a]) IN
    /\ resultado' = Resultado("cierre_cuenta", a, 0, err)
    /\ IF err = ""
       THEN /\ cuentas' = [cuentas EXCEPT ![a].fecha_cierre = Hoy]
            /\ bitacora' = bitacora (+) Auditoria("EDITAR", "CUENTA_AHORRO")
       ELSE UNCHANGED <<cuentas, bitacora>>
    /\ UNCHANGED <<transacciones, ahora, sesiones, fueraDeCuentas>>

\* the clock: a step of one hour, or a jump of DIAS_MAX_REVERSO days
AvanzarReloj(horas) ==
    /\ horas = 1 => ahora % (DIAS_MAX_REVERSO * HorasPorDia) < MaxSaltosHora
    /\ ahora + horas <= DIAS_MAX_REVERSO * HorasPorDia + MaxSaltosHora
    /\ ahora' = ahora + horas
    /\ resultado' = Resultado("reloj", 0, 0, "")
    /\ UNCHANGED <<cuentas, transacciones, bitacora, sesiones, fueraDeCuentas>>

----------------------------------------------------------------------------
(* Two requests on the same database: each view loads its CuentaAhorro     *)
(* instance (get_object_or_404, no select_for_update) and later runs       *)
(* depositar / retirar on that instance inside transaction.atomic().       *)

SesionLibre == [pc |-> "libre", op |-> "", cuenta |-> 0, monto |-> 0,
                obj |-> [saldo_actual |-> 0, fecha_cierre |-> NULL,
                         es_retirable |-> FALSE]]

\* views.cuentas_depositar / cuentas_retirar up to get_object_or_404 and the form
VistaCargar(p, op, a, monto) ==
    /\ sesiones[p].pc = "libre"
    /\ monto > 0
    /\ sesiones' = [sesiones EXCEPT ![p] =
            [pc |-> "cargada", op |-> op, cuenta |-> a, monto |-> monto,
             obj |-> cuentas[a]]]
    /\ resultado' = Resultado("cargar", a, monto, "")
    /\ UNCHANGED <<cuentas, transacciones, bitacora, ahora, fueraDeCuentas>>

\* the transaction.atomic() block of the view: the method runs on the loaded instance
VistaEjecutar(p) ==
    LET s == sesiones[p] IN
    /\ s.pc = "cargada"
    /\ CabeMovimiento(IF s.op = "retirar" THEN 0 ELSE cuentas[s.cuenta].saldo_actual,
                      s.monto)
    /\ CabeMovimiento(IF s.op = "retirar" THEN 0 ELSE s.obj.saldo_actual, s.monto)
    /\ IF s.op = "depositar"
       THEN CuentaDepositar(s.obj, s.cuenta, s.monto)
       ELSE CuentaRetirar(s.obj, s.cuenta, s.monto)
    /\ sesiones' = [sesiones EXCEPT ![p] = SesionLibre]
    /\ UNCHANGED <<ahora, fueraDeCuentas>>

----------------------------------------------------------------------------
(* Specifications of the account part *)

\* accounts opened by apertura_cuenta without an initial deposit
InitCuentas ==
    /\ cuentas = [a \in Cuentas |->
            [saldo_actual |-> 0, fecha_cierre |-> NULL, es_retirable |-> EsRetirable(a)]]
    /\ transacciones = <<>>
    /\ bitacora = EmptyBag
    /\ ahora = 0
    /\ sesiones = [p \in Procesos |-> SesionLibre]
    /\ resultado = Resultado("inicio", 0, 0, "")

\* no fund period, no aid request
InitFondo ==
    /\ fondos = <<>>
    /\ movimientos = <<>>
    /\ solicitudes = <<>>

\* no loan
InitPrestamo ==
    /\ prestamos = <<>>
    /\ cuotas = <<>>
    /\ pagos = <<>>
    /\ garantes = <<>>

Init == InitCuentas /\ InitFondo /\ InitPrestamo

\* the teller views, reversal and closing; every request is served before the
\* next one arrives
Next ==
    \/ \E a \in Cuentas, m \in Montos : Depositar(a, m)
    \/ \E a \in Cuentas, m \in Montos : Retirar(a, m)
    \/ \E id \in 1..(MaxTrans + 1) : ReversarTransaccion(id)
    \/ \E a \in Cuentas : CierreCuenta(a)

Spec == Init /\ [][Next]_vars

\* the same ledger driven through TransaccionService only
NextServicio ==
    \/ \E a \in Cuentas, m \in Montos, tipo \in {"DEPOSITO", "RETIRO"} :
            PostTransaccion(tipo, a, m)
    \/ \E id \in 1..(MaxTrans + 1) : ReversarTransaccion(id)
    \/ \E a \in Cuentas : CierreCuenta(a)

SpecServicio == Init /\ [][NextServicio]_vars

\* the same requests, with time passing between them
NextReloj ==
    \/ Next
    \/ \E h \in {1, DIAS_MAX_REVERSO * HorasPorDia} : AvanzarReloj(h)

SpecReloj == Init /\ [][NextReloj]_vars

\* The handler of an operation that passed its checks (err = "") and whose audit
\* write, BitacoraAuditoria.objects.create in the post_save signal or in the
\* service, raises: the exception leaves the atomic block, every write of the
\* block is rolled back and the error is reported.
FallaBitacora(op, obj, monto, err) ==
    /\ err = ""
    /\ resultado' = Resultado(op, obj, monto, "bitacora")
    /\ UNCHANGED <<cuentas, transacciones, bitacora, ahora, sesiones, fueraDeCuentas>>

\* the teller views and the reversal, where the audit table may refuse a write
NextAuditoria ==
    \/ \E a \in Cuentas, m \in Montos : Depositar(a, m)
    \/ \E a \in Cuentas, m \in Montos : Retirar(a, m)
    \/ \E id \in 1..(MaxTrans + 1) : ReversarTransaccion(id)
    \/ \E a \in Cuentas, m \in Montos :
            FallaBitacora("depositar", a, m, ErrorDepositar(m))
    \/ \E a \in Cuentas, m \in Montos :
            FallaBitacora("retirar", a, m, ErrorRetirar(cuentas[a], m))
    \/ \E id \in 1..(MaxTrans + 1) :
            FallaBitacora("reversar", id, 0, ErrorReversar(id))

SpecAuditoria == Init /\ [][NextAuditoria]_vars

\* requests of two tellers interleave
NextConc ==
    \/ \E p \in Procesos, a \in Cuentas, m \in Montos, op \in {"depositar", "retirar"} :
            VistaCargar(p, op, a, m)
    \/ \E p \in Procesos : VistaEjecutar(p)

SpecConc == Init /\ [][NextConc]_vars

----------------------------------------------------------------------------
(* Properties of the account ledger *)

\* conciliar_saldos: depositos - retiros of one account
SaldoCalculado(a) ==
    LET deps == {i \in 1..Len(transacciones) :
                    /\ transacciones[i].cuenta_ahorro = a
                    /\ transacciones[i].tipo_transaccion = "DEPOSITO"}
        rets == {i \in 1..Len(transacciones) :
                    /\ transacciones[i].cuenta_ahorro = a
                    /\ transacciones[i].tipo_transaccion = "RETIRO"}
    IN  SumaIdx(transacciones, deps) - SumaIdx(transacciones, rets)

\* rows of account a of the given type
FilasDe(a, tipo) ==
    {i \in 1..Len(transacciones) :
        /\ transacciones[i].cuenta_ahorro = a
        /\ transacciones[i].tipo_transaccion = tipo}

\* only deposits and withdrawals were ever applied to account a
SoloDepositosYRetiros(a) == FilasDe(a, "REVERSO") = {}

\* C1: an account opened with balance 0 on which only deposits and withdrawals
\* were called (accepted or rejected) has saldo_actual equal to the sum of its
\* DEPOSITO rows minus the sum of its RETIRO rows.
C1_Reconciliacion ==
    \A a \in Cuentas :
        SoloDepositosYRetiros(a) => cuentas[a].saldo_actual = SaldoCalculado(a)

\* an account with a deposit and a withdrawal behind it, a balance left, and a
\* withdrawal just rejected
C1_Witness ==
    \E a \in Cuentas :
        /\ SoloDepositosYRetiros(a)
        /\ FilasDe(a, "DEPOSITO") # {}
        /\ FilasDe(a, "RETIRO") # {}
        /\ cuentas[a].saldo_actual > 0
        /\ resultado.op = "retirar" /\ resultado.obj = a /\ ~resultado.ok

\* C2: after any sequence of deposits, withdrawals and reversals every balance
\* is >= 0, every ledger row has monto > 0 and every account row has
\* saldo_nuevo >= 0.
C2_SaldosNoNegativos ==
    /\ \A a \in Cuentas : cuentas[a].saldo_actual >= 0
    /\ \A i \in 1..Len(transacciones) :
        /\ transacciones[i].monto > 0
        /\ transacciones[i].cuenta_ahorro # NULL => transacciones[i].saldo_nuevo >= 0

\* a reversal was just refused because it would leave the balance negative
C2_Witness ==
    /\ resultado.op = "reversar" /\ resultado.error = "saldo_negativo"
    /\ \E i \in 1..Len(transacciones) : transacciones[i].tipo_transaccion = "RETIRO"

\* C3: with two callers on one account no update is lost: once both requests are
\* served, saldo_actual equals deposits minus withdrawals of the ledger.
C3_SinActualizacionPerdida ==
    (\A p \in Procesos : sesiones[p].pc = "libre")
        => \A a \in Cuentas : cuentas[a].saldo_actual = SaldoCalculado(a)

\* the step is a withdrawal of more than the balance of an account that is not
\* being closed
RetiroExcesivo ==
    /\ resultado'.op = "retirar"
    /\ cuentas[resultado'.obj].fecha_cierre = NULL
    /\ resultado'.monto > cuentas[resultado'.obj].saldo_actual

\* C4 as claimed: every such withdrawal raises the insufficient-funds error and
\* leaves the balance and the ledger as they were.
C4_Original ==
    [][RetiroExcesivo =>
        /\ resultado'.error = "saldo_insuficiente"
        /\ UNCHANGED <<cuentas, transacciones>>]_vars

\* C4 amended: every such withdrawal is rejected and leaves the balance and the
\* ledger as they were; the error is the insufficient-funds error when the
\* account type allows withdrawals and the not-withdrawable error when it does not.
C4_RetiroRechazado ==
    [][RetiroExcesivo =>
        /\ resultado'.error = (IF cuentas[resultado'.obj].es_retirable
                               THEN "saldo_insuficiente" ELSE "no_retirable")
        /\ UNCHANGED <<cuentas, transacciones>>]_vars

\* a withdrawal above the balance was just refused on an open account that has a
\* balance and a ledger
C4_Witness ==
    /\ resultado.op = "retirar" /\ resultado.error = "saldo_insuficiente"
    /\ cuentas[resultado.obj].fecha_cierre = NULL
    /\ cuentas[resultado.obj].saldo_actual > 0
    /\ resultado.monto > cuentas[resultado.obj].saldo_actual

ReversosDe(i) ==
    {j \in 1..Len(transacciones) :
        /\ transacciones[j].tipo_transaccion = "REVERSO"
        /\ transacciones[j].transaccion_reversada = i}

C16_AuditoriaNoRevierte ==
    [][resultado'.error = "bitacora" =>
            /\ Len(transacciones') = Len(transacciones) + 1
            /\ cuentas' # cuentas]_vars

\* C31: the reversal of a row (present and not yet reversed) whose timestamp is
\* more than 30 days before the call, be it by one hour, fails with the too-old
\* error and changes neither balances nor ledger; a row that is at most 30 days
\* old is never refused for its age.
C31_ReversoMuyAntiguo ==
    [][(/\ resultado'.op = "reversar"
        /\ resultado'.obj \in 1..Len(transacciones)
        /\ transacciones[resultado'.obj].estado # "REVERSADA")
       => LET edad == ahora - transacciones[resultado'.obj].fecha_transaccion IN
          IF edad > DIAS_MAX_REVERSO * HorasPorDia
          THEN /\ resultado'.error = "muy_antigua"
               /\ UNCHANGED <<cuentas, transacciones>>
          ELSE resultado'.error # "muy_antigua"]_vars

\* C32: the reversal of a DEPOSITO row (not yet reversed) whose amount exceeds
\* the current balance of its account is refused with the would-go-negative
\* error; the balance, the ledger and the status of the original row stay as
\* they were.
C32_ReversoSinSaldo ==
    [][(/\ resultado'.op = "reversar"
        /\ resultado'.obj \in 1..Len(transacciones)
        /\ transacciones[resultado'.obj].estado # "REVERSADA"
        /\ transacciones[resultado'.obj].tipo_transaccion = "DEPOSITO"
        /\ transacciones[resultado'.obj].monto
                > cuentas[transacciones[resultado'.obj].cuenta_ahorro].saldo_actual)
       => /\ resultado'.error = "saldo_negativo"
          /\ UNCHANGED <<cuentas, transacciones>>]_vars

\* a deposit was withdrawn in full and its reversal has just been refused: the
\* account is empty and the deposit row is not flagged
C32_Witness ==
    /\ resultado.op = "reversar" /\ resultado.error = "saldo_negativo"
    /\ transacciones[resultado.obj].tipo_transaccion = "DEPOSITO"
    /\ transacciones[resultado.obj].estado # "REVERSADA"
    /\ cuentas[transacciones[resultado.obj].cuenta_ahorro].saldo_actual = 0
    /\ \E j \in 1..Len(transacciones) :
            /\ transacciones[j].tipo_transaccion = "RETIRO"
            /\ transacciones[j].cuenta_ahorro = transacciones[resultado.obj].cuenta_ahorro
            /\ transacciones[j].monto = transacciones[resultado.obj].monto

\* C35: cierre_cuenta closes an account only when its balance is 0 and refuses,
\* changing nothing, a non-zero balance and an account already closed; a closed
\* account keeps balance 0: every deposit, withdrawal or reversal on a closed
\* account is rejected.
C35_CuentaCerrada ==
    /\ [](\A a \in Cuentas :
            (cuentas[a].fecha_cierre # NULL) => (cuentas[a].saldo_actual = 0))
    /\ [][/\ (resultado'.op = "cierre_cuenta") =>
              (IF /\ cuentas[resultado'.obj].saldo_actual = 0
                  /\ cuentas[resultado'.obj].fecha_cierre = NULL
               THEN resultado'.ok /\ cuentas'[resultado'.obj].fecha_cierre # NULL
               ELSE ~resultado'.ok /\ UNCHANGED <<cuentas, transacciones>>)
          /\ (/\ resultado'.op \in {"depositar", "retirar"}
              /\ cuentas[resultado'.obj].fecha_cierre # NULL) => ~resultado'.ok
          /\ (/\ resultado'.op = "reversar"
              /\ resultado'.obj \in 1..Len(transacciones)
              /\ transacciones[resultado'.obj].cuenta_ahorro # NULL
              /\ cuentas[transacciones[resultado'.obj].cuenta_ahorro].fecha_cierre # NULL)
                   => ~resultado'.ok]_vars

\* C36: after any sequence of deposits, withdrawals and reversals the daily
\* reconciliation finds no difference: for every account, reversed entries or
\* not, saldo_actual minus the balance recomputed from the ledger (DEPOSITO
\* rows minus RETIRO rows) is 0.
C36_ConciliacionSinDiferencias ==
    \A a \in Cuentas :
        LET diferencia == cuentas[a].saldo_actual - SaldoCalculado(a)
        IN  diferencia = 0

----------------------------------------------------------------------------
(* Mutual fund: periods, movements and aid requests *)

MaxMovs == 3           \* movements of all funds
MaxSolicitudes == 2    \* aid requests

\* ParametroSistema FONDO_MUTUO / MONTO_MINIMO_APORTE
MONTO_MINIMO_APORTE == 50
Socios == {1, 2}
Aportantes == {1}
Aportes == {0, 49, 50, 500}
Solicitados == {600}
Ayudas == {0, 400, 600}

fueraDeFondo == <<cuentas, transacciones, sesiones, varsPrestamo>>

\* hoy.strftime('%Y%m')
PeriodoActual == Periodo(Hoy)

\* FondoMutuo.objects.create(periodo, estado ABIERTO): totals default to 0
NuevoFondo(periodo) ==
    [periodo |-> periodo, estado |-> "ABIERTO", total_ingresos |-> 0,
     total_egresos |-> 0, saldo_disponible |-> 0, fecha_cierre |-> NULL]

EstaAbierto(fondo) == fondo.estado = "ABIERTO"

\* id of the fund of the current month, NULL when there is none
GetPeriodoActual ==
    IF \E f \in 1..Len(fondos) : fondos[f].periodo = PeriodoActual
    THEN CHOOSE f \in 1..Len(fondos) : fondos[f].periodo = PeriodoActual
    ELSE NULL

\* Sum('monto', filter=Q(origen=...)) over the movements of fund f
SumaOrigen(movs, f, origen) ==
    SumaIdx(movs, {i \in 1..Len(movs) : movs[i].fondo = f /\ movs[i].origen = origen})

\* a balance that forgets the outflows
SaldoSoloIngresos(ingresos, egresos) == ingresos

SaldoDisponible(ingresos, egresos) == ingresos - egresos

\* FondoMutuo.actualizar_saldo on fund f of fs, with the movements movs
ActualizarSaldo(fs, movs, f) ==
    LET ingresos == SumaOrigen(movs, f, "INGRESO")
        egresos == SumaOrigen(movs, f, "EGRESO")
    IN  [fs EXCEPT ![f].total_ingresos = ingresos,
                   ![f].total_egresos = egresos,
                   ![f].saldo_disponible = SaldoDisponible(ingresos, egresos)]

NuevoMovimiento(f, socio, origen, monto, anterior, nuevo, solicitud) ==
    [fondo |-> f, socio |-> socio, origen |-> origen, monto |-> monto,
     saldo_anterior |-> anterior, saldo_nuevo |-> nuevo, solicitud_ayuda |-> solicitud]

\* FondoMutuo.crear_periodo_actual, from fondos_crear_actual
CrearPeriodoActual ==
    LET err == IF GetPeriodoActual # NULL THEN "ya_existe" ELSE ""
    IN  /\ resultado' = Resultado("crear_periodo", Len(fondos) + 1, 0, err)
        /\ IF err = ""
           THEN /\ fondos' = Append(fondos, NuevoFondo(PeriodoActual))
                /\ bitacora' = bitacora (+) Auditoria("CREAR", "FONDO_MUTUO")
           ELSE UNCHANGED <<fondos, bitacora>>
        /\ UNCHANGED <<movimientos, solicitudes, ahora, fueraDeFondo>>

\* the validations of registrar_aporte on the fund it resolved
ErrorAporte(fondo, monto) ==
    IF ~EstaAbierto(fondo) THEN "fondo_cerrado"
    ELSE IF monto <= 0 THEN "monto_invalido"
    ELSE IF monto < MONTO_MINIMO_APORTE THEN "monto_minimo"
    ELSE ""

\* FondoMutuoService.registrar_aporte; fparam = NULL is the call of aportes_crear,
\* which resolves (or creates) the fund of the current month
RegistrarAporte(fparam, socio, monto) ==
    LET creado == fparam = NULL /\ GetPeriodoActual = NULL
        fs0 == IF creado THEN Append(fondos, NuevoFondo(PeriodoActual)) ELSE fondos
        f == IF fparam # NULL THEN fparam
             ELSE IF creado THEN Len(fondos) + 1 ELSE GetPeriodoActual
        err == ErrorAporte(fs0[f], monto)
        movs == Append(movimientos,
                    NuevoMovimiento(f, socio, "INGRESO", monto, fs0[f].saldo_disponible,
                                    fs0[f].saldo_disponible + monto, NULL))
    IN  /\ resultado' = Resultado("registrar_aporte", f, monto, err)
        /\ IF err = ""
           THEN /\ Len(movimientos) < MaxMovs
                /\ movimientos' = movs
                /\ fondos' = ActualizarSaldo(fs0, movs, f)
                /\ bitacora' = bitacora
                        (+) (IF creado THEN Auditoria("CREAR", "FONDO_MUTUO") ELSE EmptyBag)
                        (+) Auditoria("CREAR", "MOVIMIENTO_FONDO_MUTUO")
           ELSE UNCHANGED <<fondos, movimientos, bitacora>>
        /\ UNCHANGED <<solicitudes, ahora, fueraDeFondo>>

\* a form that never finds a request in course
TieneSolicitudNunca(socio) == FALSE

\* SolicitudAyudaForm.clean: the member already has a request in course
TieneSolicitud(socio) ==
    \E i \in 1..Len(solicitudes) :
        /\ solicitudes[i].socio = socio
        /\ solicitudes[i].estado \in {"PENDIENTE", "EN_REVISION", "APROBADA"}

\* solicitudes_crear: the form, then the fund of the current month, then save
SolicitudesCrear(socio, monto) ==
    LET err == IF TieneSolicitud(socio) THEN "solicitud_pendiente"
               ELSE IF GetPeriodoActual = NULL THEN "sin_fondo"
               ELSE ""
    IN  /\ resultado' = Resultado("solicitudes_crear", Len(solicitudes) + 1, monto, err)
        /\ IF err = ""
           THEN /\ Len(solicitudes) < MaxSolicitudes
                /\ solicitudes' = Append(solicitudes,
                        [socio |-> socio, fondo |-> GetPeriodoActual, estado |-> "PENDIENTE",
                         monto_solicitado |-> monto, monto_aprobado |-> NULL])
           ELSE UNCHANGED solicitudes
        /\ UNCHANGED <<fondos, movimientos, bitacora, ahora, fueraDeFondo>>

\* a request that can be decided whatever its state
EstadoDecidibleSiempre(estado) == TRUE

EstadoDecidible(estado) == estado \in {"PENDIENTE", "EN_REVISION"}

\* the checks of SolicitudAyudaMutua.aprobar, then those of the rows it writes
\* (chk_movimiento_monto_positivo, validar_saldo_fondo_no_negativo)
ErrorAprobar(sol, monto) ==
    IF ~EstadoDecidible(sol.estado) THEN "estado_invalido"
    ELSE IF fondos[sol.fondo].saldo_disponible < monto THEN "saldo_insuficiente"
    ELSE IF monto <= 0 THEN "monto_invalido"
    ELSE IF SaldoDisponible(SumaOrigen(movimientos, sol.fondo, "INGRESO"),
                            SumaOrigen(movimientos, sol.fondo, "EGRESO") + monto) < 0
         THEN "saldo_negativo"
    ELSE ""

\* solicitudes_aprobar -> SolicitudAyudaMutua.aprobar
Aprobar(s, monto) ==
    LET sol == solicitudes[s]
        f == sol.fondo
        err == ErrorAprobar(sol, monto)
        movs == Append(movimientos,
                    NuevoMovimiento(f, sol.socio, "EGRESO", monto, fondos[f].saldo_disponible,
                                    fondos[f].saldo_disponible - monto, s))
    IN  /\ resultado' = Resultado("aprobar", s, monto, err)
        /\ IF err = ""
           THEN /\ Len(movimientos) < MaxMovs
                /\ solicitudes' = [solicitudes EXCEPT ![s].estado = "APROBADA",
                                                      ![s].monto_aprobado = monto]
                /\ movimientos' = movs
                /\ fondos' = ActualizarSaldo(fondos, movs, f)
                /\ bitacora' = bitacora (+) Auditoria("APROBAR", "SOLICITUD_AYUDA_MUTUA")
           ELSE UNCHANGED <<solicitudes, movimientos, fondos, bitacora>>
        /\ UNCHANGED <<ahora, fueraDeFondo>>

\* solicitudes_rechazar -> SolicitudAyudaMutua.rechazar
Rechazar(s) ==
    LET err == IF ~EstadoDecidible(solicitudes[s].estado) THEN "estado_invalido" ELSE ""
    IN  /\ resultado' = Resultado("rechazar", s, 0, err)
        /\ IF err = ""
           THEN /\ solicitudes' = [solicitudes EXCEPT ![s].estado = "RECHAZADA"]
                /\ bitacora' = bitacora (+) Auditoria("RECHAZAR", "SOLICITUD_AYUDA_MUTUA")
           ELSE UNCHANGED <<solicitudes, bitacora>>
        /\ UNCHANGED <<fondos, movimientos, ahora, fueraDeFondo>>

\* requests of fund f still to be decided
SolicitudesPendientes(f) ==
    {i \in 1..Len(solicitudes) :
        solicitudes[i].fondo = f /\ solicitudes[i].estado \in {"PENDIENTE", "EN_REVISION"}}

\* a closing that does not look at the requests still to be decided
ErrorCerrarSinSolicitudes(f) ==
    IF ~EstaAbierto(fondos[f]) THEN "ya_cerrado"
    ELSE IF ActualizarSaldo(fondos, movimientos, f)[f].saldo_disponible <= 0
         THEN "monto_cierre_invalido"
    ELSE ""

\* the checks of cerrar_periodo; the CIERRE movement carries the balance as its
\* monto, which chk_movimiento_monto_positivo refuses when it is 0
ErrorCerrar(f) ==
    IF ~EstaAbierto(fondos[f]) THEN "ya_cerrado"
    ELSE IF SolicitudesPendientes(f) # {} THEN "solicitudes_pendientes"
    ELSE IF ActualizarSaldo(fondos, movimientos, f)[f].saldo_disponible <= 0
         THEN "monto_cierre_invalido"
    ELSE ""

\* fondos_cerrar -> FondoMutuoService.cerrar_periodo
CerrarPeriodo(f) ==
    LET err == ErrorCerrar(f)
        fs1 == ActualizarSaldo(fondos, movimientos, f)
        saldo == fs1[f].saldo_disponible
        movs == Append(movimientos,
                    NuevoMovimiento(f, NULL, "CIERRE", saldo, saldo, saldo, NULL))
    IN  /\ resultado' = Resultado("cerrar_periodo", f, 0, err)
        /\ IF err = ""
           THEN /\ Len(movimientos) < MaxMovs
                /\ movimientos' = movs
                /\ fondos' = [ActualizarSaldo(fs1, movs, f) EXCEPT
                                ![f].estado = "CERRADO", ![f].fecha_cierre = Hoy]
                /\ bitacora' = bitacora (+) Auditoria("EDITAR", "FONDO_MUTUO")
           ELSE UNCHANGED <<movimientos, fondos, bitacora>>
        /\ UNCHANGED <<solicitudes, ahora, fueraDeFondo>>

NextFondo ==
    \/ CrearPeriodoActual
    \/ \E f \in {NULL} \cup (1..Len(fondos)), socio \in Aportantes, m \in Aportes :
            RegistrarAporte(f, socio, m)
    \/ \E socio \in Socios, m \in Solicitados : SolicitudesCrear(socio, m)
    \/ \E s \in 1..Len(solicitudes), m \in Ayudas : Aprobar(s, m)
    \/ \E s \in 1..Len(solicitudes) : Rechazar(s)
    \/ \E f \in 1..Len(fondos) : CerrarPeriodo(f)

SpecFondo == Init /\ [][NextFondo]_vars

\* Two requests on the same database open the period of the month, directly
\* (fondos_crear_actual) or through a contribution that finds no fund
\* (aportes_crear): each one checks that the period does not exist and later
\* inserts it, and the other request may run in between.
MaxMeses == 1          \* months the clock may advance

\* contributions offered here: one below the minimum and one accepted
AportesConc == {49, 500}

\* a table without the unique index on periodo
ViolaUnicidadNunca(periodo) == FALSE

\* FondoMutuo.periodo unique=True: the insert of a second row with the same
\* periodo raises IntegrityError
ViolaUnicidad(periodo) == \E f \in 1..Len(fondos) : fondos[f].periodo = periodo

\* cls.objects.filter(periodo=periodo).exists()
ExistePeriodo(periodo) == \E f \in 1..Len(fondos) : fondos[f].periodo = periodo

\* the request of process p, between its queries
SesionFondo(pc, op, periodo, socio, monto) ==
    [pc |-> pc, op |-> op, periodo |-> periodo, socio |-> socio, monto |-> monto]

\* fondos_crear_actual up to the exists() query of crear_periodo_actual, which
\* raises 'Ya existe un fondo' when it finds the period
VerificarPeriodo(p) ==
    /\ sesiones[p].pc = "libre"
    /\ IF ExistePeriodo(PeriodoActual)
       THEN /\ resultado' = Resultado("crear_periodo", PeriodoActual, 0, "ya_existe")
            /\ UNCHANGED sesiones
       ELSE /\ resultado' = Resultado("verificar_periodo", PeriodoActual, 0, "")
            /\ sesiones' = [sesiones EXCEPT ![p] =
                    SesionFondo("verificado", "crear_periodo", PeriodoActual, NULL, 0)]
    /\ UNCHANGED <<fondos, movimientos, solicitudes, bitacora, ahora, cuentas,
                   transacciones, varsPrestamo>>

\* aportes_crear up to get_periodo_actual: with a fund of the month the whole
\* contribution runs; without one the request goes on to create it
AporteBuscarPeriodo(p, socio, monto) ==
    /\ sesiones[p].pc = "libre"
    /\ IF GetPeriodoActual # NULL
       THEN RegistrarAporte(NULL, socio, monto)
       ELSE /\ resultado' = Resultado("get_periodo_actual", PeriodoActual, monto, "")
            /\ sesiones' = [sesiones EXCEPT ![p] =
                    SesionFondo("sin_fondo", "registrar_aporte", PeriodoActual, socio, monto)]
            /\ UNCHANGED <<fondos, movimientos, solicitudes, bitacora, ahora, cuentas,
                           transacciones, varsPrestamo>>

\* the exists() query of crear_periodo_actual, called by registrar_aporte; the
\* period is read again from the clock
AporteVerificarPeriodo(p) ==
    /\ sesiones[p].pc = "sin_fondo"
    /\ IF ExistePeriodo(PeriodoActual)
       THEN /\ resultado' = Resultado("registrar_aporte", PeriodoActual,
                                      sesiones[p].monto, "ya_existe")
            /\ sesiones' = [sesiones EXCEPT ![p] = SesionLibre]
       ELSE /\ resultado' = Resultado("verificar_periodo", PeriodoActual, 0, "")
            /\ sesiones' = [sesiones EXCEPT ![p].pc = "verificado",
                                            ![p].periodo = PeriodoActual]
    /\ UNCHANGED <<fondos, movimientos, solicitudes, bitacora, ahora, cuentas,
                   transacciones, varsPrestamo>>

\* cls.objects.create(periodo=...) and what follows it: the audit row for
\* fondos_crear_actual; the validations, the INGRESO movement, the totals and the
\* audit rows for registrar_aporte, whose atomic block also undoes the new fund
\* when a validation fails
InsertarPeriodo(p) ==
    LET s == sesiones[p]
        f == Len(fondos) + 1
        fs0 == Append(fondos, NuevoFondo(s.periodo))
        err == IF ViolaUnicidad(s.periodo) THEN "periodo_duplicado"
               ELSE IF s.op = "registrar_aporte" THEN ErrorAporte(fs0[f], s.monto)
               ELSE ""
        movs == Append(movimientos,
                    NuevoMovimiento(f, s.socio, "INGRESO", s.monto, 0, s.monto, NULL))
    IN  /\ s.pc = "verificado"
        /\ sesiones' = [sesiones EXCEPT ![p] = SesionLibre]
        /\ resultado' = Resultado(s.op, s.periodo, s.monto, err)
        /\ IF err # "" THEN UNCHANGED <<fondos, movimientos, bitacora>>
           ELSE IF s.op = "crear_periodo"
           THEN /\ fondos' = fs0
                /\ bitacora' = bitacora (+) Auditoria("CREAR", "FONDO_MUTUO")
                /\ UNCHANGED movimientos
           ELSE /\ Len(movimientos) < MaxMovs
                /\ movimientos' = movs
                /\ fondos' = ActualizarSaldo(fs0, movs, f)
                /\ bitacora' = bitacora (+) Auditoria("CREAR", "FONDO_MUTUO")
                                         (+) Auditoria("CREAR", "MOVIMIENTO_FONDO_MUTUO")
        /\ UNCHANGED <<solicitudes, ahora, cuentas, transacciones, varsPrestamo>>

\* the clock reaches the same day of the next month
CambioDeMes ==
    /\ Periodo(Hoy) < Periodo(0) + MaxMeses
    /\ ahora' = SumarMes(Hoy) * HorasPorDia
    /\ resultado' = Resultado("mes", 0, 0, "")
    /\ UNCHANGED <<fondos, movimientos, solicitudes, bitacora, sesiones, cuentas,
                   transacciones, varsPrestamo>>

NextFondoConc ==
    \/ \E p \in Procesos : VerificarPeriodo(p)
    \/ \E p \in Procesos, socio \in Aportantes, m \in AportesConc :
            AporteBuscarPeriodo(p, socio, m)
    \/ \E p \in Procesos : AporteVerificarPeriodo(p)
    \/ \E p \in Procesos : InsertarPeriodo(p)
    \/ CambioDeMes

SpecFondoConc == Init /\ [][NextFondoConc]_vars

----------------------------------------------------------------------------
(* Properties of the mutual fund *)

\* indices of the movements of fund f in a movement log
MovimientosDe(movs, f) == {i \in 1..Len(movs) : movs[i].fondo = f}

\* C6: after every contribution, approval and period closing, accepted or
\* rejected, each fund has saldo_disponible = total_ingresos - total_egresos >= 0,
\* with the totals equal to the sums of its INGRESO and EGRESO movements.
C6_FondoCuadra ==
    \A f \in 1..Len(fondos) :
        /\ fondos[f].saldo_disponible = fondos[f].total_ingresos - fondos[f].total_egresos
        /\ fondos[f].saldo_disponible >= 0
        /\ fondos[f].total_ingresos = SumaOrigen(movimientos, f, "INGRESO")
        /\ fondos[f].total_egresos = SumaOrigen(movimientos, f, "EGRESO")

\* a fund that received contributions and paid an aid has just been closed
C6_Witness ==
    /\ resultado.op = "cerrar_periodo" /\ resultado.ok
    /\ fondos[resultado.obj].total_ingresos > 0
    /\ fondos[resultado.obj].total_egresos > 0
    /\ fondos[resultado.obj].saldo_disponible > 0

C8_AprobarAyuda ==
    [][resultado'.op = "aprobar" =>
        LET s == resultado'.obj
            m == resultado'.monto
            f == solicitudes[s].fondo
            n == Len(movimientos)
        IN  IF \/ m > fondos[f].saldo_disponible
               \/ solicitudes[s].estado \notin {"PENDIENTE", "EN_REVISION"}
            THEN /\ ~resultado'.ok
                 /\ UNCHANGED <<solicitudes, fondos, movimientos>>
            ELSE m > 0 =>
                 /\ resultado'.ok
                 /\ Len(movimientos') = n + 1
                 /\ \A i \in 1..n : movimientos'[i] = movimientos[i]
                 /\ movimientos'[n + 1].origen = "EGRESO"
                 /\ movimientos'[n + 1].monto = m
                 /\ movimientos'[n + 1].fondo = f
                 /\ movimientos'[n + 1].solicitud_ayuda = s
                 /\ solicitudes' = [solicitudes EXCEPT ![s].estado = "APROBADA",
                                                       ![s].monto_aprobado = m]
                 /\ fondos'[f].saldo_disponible = fondos[f].saldo_disponible - m
                 /\ fondos'[f].total_egresos = fondos[f].total_egresos + m
                 /\ fondos'[f].total_ingresos = fondos[f].total_ingresos]_vars

\* contribute 500, approve 400 (100 left), then an approval of 600 is refused
C8_Witness ==
    /\ resultado.op = "aprobar" /\ resultado.error = "saldo_insuficiente"
    /\ resultado.monto = 600
    /\ solicitudes[resultado.obj].estado = "PENDIENTE"
    /\ fondos[solicitudes[resultado.obj].fondo].total_ingresos = 500
    /\ fondos[solicitudes[resultado.obj].fondo].saldo_disponible = 100
    /\ \E i \in 1..Len(solicitudes) :
        /\ solicitudes[i].estado = "APROBADA"
        /\ solicitudes[i].monto_aprobado = 400
        /\ solicitudes[i].fondo = solicitudes[resultado.obj].fondo

\* C26: a contribution to a CERRADO fund, or of an amount less than or equal to
\* MONTO_MINIMO_APORTE, fails and leaves funds and movements as they were; any
\* other contribution appends exactly one INGRESO movement of that amount and
\* raises the fund's saldo_disponible by exactly the amount.
C26_AporteMinimo ==
    [][resultado'.op = "registrar_aporte" =>
        LET f == resultado'.obj
            m == resultado'.monto
            n == Len(movimientos)
            previo == IF f \in 1..Len(fondos) THEN fondos[f].saldo_disponible ELSE 0
        IN  IF \/ f \in 1..Len(fondos) /\ fondos[f].estado = "CERRADO"
               \/ m <= MONTO_MINIMO_APORTE
            THEN /\ ~resultado'.ok
                 /\ UNCHANGED <<fondos, movimientos>>
            ELSE /\ resultado'.ok
                 /\ Len(movimientos') = n + 1
                 /\ \A i \in 1..n : movimientos'[i] = movimientos[i]
                 /\ movimientos'[n + 1].origen = "INGRESO"
                 /\ movimientos'[n + 1].monto = m
                 /\ movimientos'[n + 1].fondo = f
                 /\ fondos'[f].saldo_disponible = previo + m]_vars

\* C27: closing a fund that has a PENDIENTE or EN_REVISION request fails; the
\* fund row (state and totals) is unchanged and no movement is appended.
C27_CierreConSolicitudes ==
    [][(resultado'.op = "cerrar_periodo"
        /\ SolicitudesPendientes(resultado'.obj) # {}) =>
            /\ ~resultado'.ok
            /\ fondos' = fondos
            /\ movimientos' = movimientos]_vars

\* an open fund with money and a request still PENDIENTE was refused its closing
C27_Witness ==
    /\ resultado.op = "cerrar_periodo"
    /\ resultado.error = "solicitudes_pendientes"
    /\ fondos[resultado.obj].estado = "ABIERTO"
    /\ fondos[resultado.obj].saldo_disponible > 0
    /\ \E i \in SolicitudesPendientes(resultado.obj) : solicitudes[i].estado = "PENDIENTE"
    /\ \A i \in 1..Len(movimientos) : movimientos[i].origen # "CIERRE"

\* C28: closing an ABIERTO fund without PENDIENTE / EN_REVISION requests
\* succeeds whatever its balance, 0 included: exactly one CIERRE movement is
\* appended, with saldo_anterior = saldo_nuevo = the available balance, and the
\* fund is left CERRADO.
C28_CierreSiempre ==
    [][(/\ resultado'.op = "cerrar_periodo"
        /\ fondos[resultado'.obj].estado = "ABIERTO"
        /\ SolicitudesPendientes(resultado'.obj) = {}) =>
            LET f == resultado'.obj
                n == Len(movimientos)
            IN  /\ resultado'.ok
                /\ Len(movimientos') = n + 1
                /\ \A i \in 1..n : movimientos'[i] = movimientos[i]
                /\ movimientos'[n + 1].origen = "CIERRE"
                /\ movimientos'[n + 1].fondo = f
                /\ movimientos'[n + 1].saldo_anterior = fondos[f].saldo_disponible
                /\ movimientos'[n + 1].saldo_nuevo = fondos[f].saldo_disponible
                /\ fondos'[f].estado = "CERRADO"]_vars

\* C29: no two funds have the same periodo in any reachable state, also when
\* two requests interleave their existence check and their insert; a request
\* that creates the period while a fund for it exists fails and adds no fund.
C29_UnFondoPorPeriodo ==
    /\ [](\A f, g \in 1..Len(fondos) : fondos[f].periodo = fondos[g].periodo => f = g)
    /\ [][/\ (/\ resultado'.op = "crear_periodo"
               /\ \E f \in 1..Len(fondos) : fondos[f].periodo = resultado'.obj)
                => (/\ resultado'.error \in {"ya_existe", "periodo_duplicado"}
                    /\ fondos' = fondos)
          /\ (Len(fondos') > Len(fondos))
                => (\A f \in 1..Len(fondos) :
                        fondos[f].periodo # fondos'[Len(fondos')].periodo)]_vars

\* two requests both found no fund for the month; one created it and the
\* other's insert was then refused, leaving one fund for the period
C29_Witness ==
    /\ resultado.op = "crear_periodo"
    /\ resultado.error = "periodo_duplicado"
    /\ Cardinality({f \in 1..Len(fondos) : fondos[f].periodo = resultado.obj}) = 1

\* C30: every member has at most one request PENDIENTE or EN_REVISION, and no
\* request is ever created for a member who has one: such a creation is
\* rejected.
C30_UnaSolicitudPorSocio ==
    /\ [](\A socio \in Socios :
            Cardinality({i \in 1..Len(solicitudes) :
                /\ solicitudes[i].socio = socio
                /\ solicitudes[i].estado \in {"PENDIENTE", "EN_REVISION"}}) <= 1)
    /\ [][Len(solicitudes') > Len(solicitudes) =>
            \A i \in 1..Len(solicitudes) :
                solicitudes[i].socio = solicitudes'[Len(solicitudes')].socio =>
                    solicitudes[i].estado \notin {"PENDIENTE", "EN_REVISION"}]_vars

\* a member whose first request was rejected has a second one PENDIENTE, and a
\* third request for that member has just been refused
C30_Witness ==
    /\ resultado.op = "solicitudes_crear"
    /\ resultado.error = "solicitud_pendiente"
    /\ \E i, j \in 1..Len(solicitudes) :
        /\ solicitudes[i].socio = solicitudes[j].socio
        /\ solicitudes[i].estado = "RECHAZADA"
        /\ solicitudes[j].estado = "PENDIENTE"

----------------------------------------------------------------------------
(* Loans: request, approval, schedule, disbursement, payments and penalties. *)
(* Loan amounts are in centavos, so that the rounding to two decimals of the *)
(* schedule and of the penalty is a rounding to an integer.                  *)

MaxPlazo == 2          \* plazo_meses offered: 0..MaxPlazo
MaxPagos == 2          \* payments registered
MaxDia == 1            \* days the clock may advance

\* tasa_mora_diaria = Decimal('0.10') per cent: monto_cuota * 0.10 / 100 * dias
MORA_DIVISOR == 1000
\* float(tasa_interes) / 100 / 12
TASA_DIVISOR == 1200

\* members who request a loan, one loan each
Prestatarios == {1}
MontosSolicitados == {1000}
MontosAprobados == {0, 1000}
Tasas == {0, 120}

fueraDePrestamo == <<cuentas, sesiones, varsFondo, garantes>>

RECURSIVE GCD(_, _)
GCD(a, b) == IF b = 0 THEN a ELSE GCD(b, a % b)

RECURSIVE Pot(_, _)
Pot(b, n) == IF n = 0 THEN 1 ELSE b * Pot(b, n - 1)

\* num / den rounded to the nearest integer, ties to the even one
\* (round(x, 2) and the quantize of a DecimalField with two decimals)
RedondearMitadPar(num, den) ==
    LET q == num \div den
        r == num % den
    IN  IF 2 * r < den THEN q
        ELSE IF 2 * r > den THEN q + 1
        ELSE IF q % 2 = 0 THEN q ELSE q + 1

\* the monthly rate tasa / 100 / 12 as a reduced fraction <<rn, rd>>
TasaMensual(tasa) ==
    LET g == GCD(tasa, TASA_DIVISOR)
    IN  <<tasa \div g, TASA_DIVISOR \div g>>

\* P * (r * (1 + r)**n) / ((1 + r)**n - 1), or P / n when r = 0, rounded
CuotaFrancesa(P, tasa, n) ==
    LET rn == TasaMensual(tasa)[1]
        rd == TasaMensual(tasa)[2]
    IN  IF rn > 0
        THEN RedondearMitadPar(P * rn * Pot(rd + rn, n),
                               rd * (Pot(rd + rn, n) - Pot(rd, n)))
        ELSE RedondearMitadPar(P, n)

\* the body shared by utils.calcular_cuota_francesa and Prestamo.calcular_cuota
\* for any integer n: the float division by zero when n = 0, and
\* (1 + r)**n = rd^-n / (rd + rn)^-n when n < 0, which gives a negative payment
FormulaCuota(P, tasa, n) ==
    LET rn == TasaMensual(tasa)[1]
        rd == TasaMensual(tasa)[2]
    IN  IF n = 0 THEN [error |-> "ZeroDivisionError", valor |-> 0]
        ELSE IF n > 0 THEN [error |-> "", valor |-> CuotaFrancesa(P, tasa, n)]
        ELSE IF rn > 0
        THEN [error |-> "",
              valor |-> 0 - RedondearMitadPar(P * rn * Pot(rd, 0 - n),
                            rd * (Pot(rd + rn, 0 - n) - Pot(rd, 0 - n)))]
        ELSE [error |-> "", valor |-> 0 - RedondearMitadPar(P, 0 - n)]

\* utils.calcular_cuota_francesa(capital, tasa_anual, plazo_meses)
CalcularCuotaFrancesa(capital, tasa_anual, plazo_meses) ==
    FormulaCuota(capital, tasa_anual, plazo_meses)

\* Prestamo.calcular_cuota: does nothing when an operand is None or 0
CalcularCuota(pr) ==
    IF /\ pr.monto_aprobado # NULL /\ pr.monto_aprobado # 0
       /\ pr.tasa_interes # 0 /\ pr.plazo_meses # 0
    THEN LET cuota == FormulaCuota(pr.monto_aprobado, pr.tasa_interes,
                                   pr.plazo_meses).valor
         IN  [pr EXCEPT !.cuota_mensual = cuota,
                        !.total_a_pagar = cuota * pr.plazo_meses,
                        !.saldo_pendiente = cuota * pr.plazo_meses]
    ELSE pr

\* numerator, over rd^i, of the running (unrounded) saldo after i instalments
RECURSIVE SaldoNum(_, _, _, _, _)
SaldoNum(P, cuota, rn, rd, i) ==
    IF i = 0 THEN P
    ELSE SaldoNum(P, cuota, rn, rd, i - 1) * (rd + rn) - cuota * Pot(rd, i)

RECURSIVE FechaCuota(_, _)
\* fecha_pago when the loop of generar_tabla_amortizacion writes row i: the
\* first payment date, moved one month at the end of each earlier pass
FechaCuota(fecha, i) ==
    IF i <= 1 THEN fecha ELSE SumarMes(FechaCuota(fecha, i - 1))

\* the i-th row of generar_tabla_amortizacion for loan id of record pr
FilaAmortizacion(id, pr, i) ==
    LET rn == TasaMensual(pr.tasa_interes)[1]
        rd == TasaMensual(pr.tasa_interes)[2]
        previo == SaldoNum(pr.monto_aprobado, pr.cuota_mensual, rn, rd, i - 1)
        saldo == SaldoNum(pr.monto_aprobado, pr.cuota_mensual, rn, rd, i)
        den == Pot(rd, i)
    IN  [prestamo |-> id, numero_cuota |-> i,
         monto_cuota |-> pr.cuota_mensual,
         monto_capital |-> RedondearMitadPar(pr.cuota_mensual * den - previo * rn, den),
         monto_interes |-> RedondearMitadPar(previo * rn, den),
         monto_mora |-> 0,
         saldo_pendiente |-> RedondearMitadPar(IF saldo > 0 THEN saldo ELSE 0, den),
         fecha_vencimiento |-> FechaCuota(pr.fecha_primer_pago, i),
         fecha_pago |-> NULL, dias_mora |-> 0, estado |-> "PENDIENTE"]

\* generar_tabla_amortizacion: the plazo_meses rows, in order
TablaAmortizacion(id, pr) == [i \in 1..pr.plazo_meses |-> FilaAmortizacion(id, pr, i)]

\* a block that keeps what it wrote before constraint or schedule failures
ConfirmadoSinAtomic(err) == err \in {"", "saldo_negativo", "sin_cuota"}

\* with transaction.atomic(): the writes of the block are committed only when
\* nothing was raised inside it
Confirmado(err) == err = ""

\* PrestamoForm: monto_solicitado >= 0.01, plazo_meses >= 1
ErrorSolicitud(monto, plazo) ==
    IF monto <= 0 THEN "monto_invalido"
    ELSE IF plazo < 1 THEN "plazo_invalido"
    ELSE ""

\* prestamos_crear: the rate is copied from the loan type; a TipoPrestamo row
\* is named by its tasa_interes_anual
PrestamosCrear(socio, monto, tasa, plazo) ==
    LET err == ErrorSolicitud(monto, plazo)
    IN  /\ resultado' = Resultado("prestamos_crear", Len(prestamos) + 1, monto, err)
        /\ IF err = ""
           THEN /\ \A i \in 1..Len(prestamos) : prestamos[i].socio # socio
                /\ prestamos' = Append(prestamos,
                        [socio |-> socio, tipo_prestamo |-> tasa,
                         estado |-> "SOLICITADO", monto_solicitado |-> monto,
                         monto_aprobado |-> NULL, tasa_interes |-> tasa,
                         plazo_meses |-> plazo, cuota_mensual |-> NULL,
                         total_a_pagar |-> NULL, saldo_pendiente |-> 0,
                         fecha_primer_pago |-> NULL, fecha_desembolso |-> NULL])
           ELSE UNCHANGED prestamos
        /\ UNCHANGED <<cuotas, pagos, transacciones, bitacora, ahora, fueraDePrestamo>>

EstadoRevisable(estado) == estado \in {"SOLICITADO", "EN_REVISION"}

\* prestamos_aprobar: the state check, the form, and the failure of
\* generar_tabla_amortizacion when calcular_cuota left cuota_mensual empty
ErrorAprobarPrestamo(pr, monto) ==
    IF ~EstadoRevisable(pr.estado) THEN "estado_invalido"
    ELSE IF monto <= 0 THEN "monto_invalido"
    ELSE IF CalcularCuota([pr EXCEPT !.monto_aprobado = monto]).cuota_mensual = NULL
         THEN "sin_cuota"
    ELSE ""

\* prestamos_aprobar with the two fields of AprobarPrestamoForm
PrestamosAprobarEn(id, monto, fecha) ==
    LET pr == prestamos[id]
        err == ErrorAprobarPrestamo(pr, monto)
        aprobado == CalcularCuota([pr EXCEPT !.monto_aprobado = monto,
                                             !.fecha_primer_pago = fecha,
                                             !.estado = "APROBADO"])
    IN  /\ resultado' = Resultado("prestamos_aprobar", id, monto, err)
        /\ IF Confirmado(err)
           THEN /\ prestamos' = [prestamos EXCEPT ![id] = aprobado]
                /\ cuotas' = SelectSeq(cuotas, LAMBDA c : c.prestamo # id)
                                \o TablaAmortizacion(id, aprobado)
           ELSE UNCHANGED <<prestamos, cuotas>>
        /\ UNCHANGED <<pagos, transacciones, bitacora, ahora, fueraDePrestamo>>

\* prestamos_aprobar with the date the form proposes: today
PrestamosAprobar(id, monto) == PrestamosAprobarEn(id, monto, Hoy)

PrestamosRechazar(id) ==
    LET err == IF ~EstadoRevisable(prestamos[id].estado) THEN "estado_invalido" ELSE ""
    IN  /\ resultado' = Resultado("prestamos_rechazar", id, 0, err)
        /\ IF err = ""
           THEN prestamos' = [prestamos EXCEPT ![id].estado = "RECHAZADO"]
           ELSE UNCHANGED prestamos
        /\ UNCHANGED <<cuotas, pagos, transacciones, bitacora, ahora, fueraDePrestamo>>

EstadoDesembolsable(estado) == estado = "APROBADO"

PrestamosDesembolsar(id) ==
    LET pr == prestamos[id]
        err == IF ~EstadoDesembolsable(pr.estado) THEN "estado_invalido" ELSE ""
    IN  /\ resultado' = Resultado("prestamos_desembolsar", id, 0, err)
        /\ IF Confirmado(err)
           THEN /\ prestamos' = [prestamos EXCEPT ![id].estado = "DESEMBOLSADO",
                                                  ![id].fecha_desembolso = Hoy]
                /\ transacciones' = Append(transacciones,
                        NuevaTransaccion(NULL, id, "DESEMBOLSO_PRESTAMO", pr.monto_aprobado,
                                         NULL, NULL, NULL))
           ELSE UNCHANGED <<prestamos, transacciones>>
        /\ UNCHANGED <<cuotas, pagos, bitacora, ahora, fueraDePrestamo>>

\* a penalty that adds to what is already recorded, whatever the state
CalcularMoraAcumula(c, hoy) ==
    IF c.fecha_vencimiento < hoy
    THEN [c EXCEPT !.dias_mora = @ + (hoy - c.fecha_vencimiento),
                   !.monto_mora = @ + RedondearMitadPar(
                        c.monto_cuota * (hoy - c.fecha_vencimiento), MORA_DIVISOR),
                   !.estado = "VENCIDA"]
    ELSE c

\* CuotaPrestamo.calcular_mora on the stored row c, on the date hoy
CalcularMora(c, hoy) ==
    IF c.estado = "PENDIENTE" /\ c.fecha_vencimiento < hoy
    THEN [c EXCEPT !.dias_mora = hoy - c.fecha_vencimiento,
                   !.monto_mora = RedondearMitadPar(
                        c.monto_cuota * (hoy - c.fecha_vencimiento), MORA_DIVISOR),
                   !.estado = "VENCIDA"]
    ELSE c

\* the mora sweep of tareas_banco_diarias over a table of instalments
BarridoMora(cs, hoy) ==
    [i \in 1..Len(cs) |->
        IF cs[i].estado = "PENDIENTE" /\ cs[i].fecha_vencimiento < hoy
        THEN CalcularMora(cs[i], hoy)
        ELSE cs[i]]

TareasDiarias ==
    /\ cuotas' = BarridoMora(cuotas, Hoy)
    /\ resultado' = Resultado("tareas_diarias", 0, 0, "")
    /\ UNCHANGED <<prestamos, pagos, transacciones, bitacora, ahora, fueraDePrestamo>>

\* a loan that takes payments in any state
EstadoPagableSiempre(estado) == TRUE

EstadoPagable(estado) == estado \in {"DESEMBOLSADO", "EN_PAGO"}

\* a form that offers every instalment of the loan, paid or not
CuotaElegibleCualquiera(id, c) ==
    \/ c = NULL
    \/ /\ c \in 1..Len(cuotas)
       /\ cuotas[c].prestamo = id

\* PagoPrestamoForm: the instalments offered are the PENDIENTE / VENCIDA ones of
\* the loan
CuotaElegible(id, c) ==
    \/ c = NULL
    \/ /\ c \in 1..Len(cuotas)
       /\ cuotas[c].prestamo = id
       /\ cuotas[c].estado \in {"PENDIENTE", "VENCIDA"}

\* pagos_crear: "if cuota.estado == 'VENCIDA': cuota.calcular_mora()", the
\* instalment as the split of the payment reads it
CuotaParaPago(cuota) ==
    IF cuota.estado = "VENCIDA" THEN CalcularMora(cuota, Hoy) ELSE cuota

\* a partial payment that books the whole penalty whatever was paid
MoraPagadaEntera(monto, mora) == mora

\* min(pago.monto_pagado, cuota.monto_mora): the penalty is paid first
MoraPagada(monto, mora) == IF monto < mora THEN monto ELSE mora

\* the PagoPrestamo row of pagos_crear for loan id, instalment c (or NULL)
NuevoPago(id, c, monto) ==
    LET base == [prestamo |-> id, cuota |-> c, monto_pagado |-> monto,
                 monto_capital |-> 0, monto_interes |-> 0, monto_mora |-> 0]
    IN  IF c = NULL THEN base
        ELSE LET cuota == CuotaParaPago(cuotas[c])
                 mora == MoraPagada(monto, cuota.monto_mora)
                 restante == monto - mora
             IN  IF monto >= cuota.monto_cuota + cuota.monto_mora
                 THEN [base EXCEPT !.monto_capital = cuota.monto_capital,
                                   !.monto_interes = cuota.monto_interes,
                                   !.monto_mora = cuota.monto_mora]
                 ELSE [base EXCEPT
                        !.monto_mora = mora,
                        !.monto_interes = RedondearMitadPar(
                            restante * cuota.monto_interes, cuota.monto_cuota),
                        !.monto_capital = RedondearMitadPar(
                            restante * (cuota.monto_cuota - cuota.monto_interes),
                            cuota.monto_cuota)]

\* the instalment after pagos_crear: marked paid only by a payment that covers it
CuotaTrasPago(cuota0, monto) ==
    LET cuota == CuotaParaPago(cuota0) IN
    IF monto >= cuota.monto_cuota + cuota.monto_mora
    THEN [cuota EXCEPT !.fecha_pago = Hoy,
                       !.estado = IF cuota.dias_mora = 0 THEN "PAGADA" ELSE "PAGADA_TARDE"]
    ELSE cuota

\* the loan state after its saldo_pendiente was lowered to saldo
EstadoTrasPago(estado, saldo) ==
    IF saldo <= 0 THEN "PAGADO"
    ELSE IF estado = "DESEMBOLSADO" THEN "EN_PAGO"
    ELSE estado

\* the checks of a payment without the non-negative constraint of the loan
ErrorPagoSinRestriccion(id, c, monto) ==
    IF ~EstadoPagable(prestamos[id].estado) THEN "estado_invalido"
    ELSE IF ~CuotaElegible(id, c) THEN "cuota_invalida"
    ELSE IF monto <= 0 THEN "monto_invalido"
    ELSE ""

\* the state check, the form, and chk_prestamo_saldo_no_negativo on save
ErrorPago(id, c, monto) ==
    IF ~EstadoPagable(prestamos[id].estado) THEN "estado_invalido"
    ELSE IF ~CuotaElegible(id, c) THEN "cuota_invalida"
    ELSE IF monto <= 0 THEN "monto_invalido"
    ELSE IF prestamos[id].saldo_pendiente - monto < 0 THEN "saldo_negativo"
    ELSE ""

PagosCrear(id, c, monto) ==
    LET pr == prestamos[id]
        err == ErrorPago(id, c, monto)
        saldo == pr.saldo_pendiente - monto
    IN  /\ resultado' = Resultado("pagos_crear", id, monto, err)
        /\ IF Confirmado(err)
           THEN /\ Len(pagos) < MaxPagos
                /\ pagos' = Append(pagos, NuevoPago(id, c, monto))
                /\ cuotas' = IF c = NULL THEN cuotas
                             ELSE [cuotas EXCEPT ![c] = CuotaTrasPago(cuotas[c], monto)]
                /\ prestamos' = [prestamos EXCEPT
                        ![id].saldo_pendiente = saldo,
                        ![id].estado = EstadoTrasPago(pr.estado, saldo)]
                /\ transacciones' = Append(transacciones,
                        NuevaTransaccion(NULL, id, "PAGO_PRESTAMO", monto, NULL, NULL, NULL))
           ELSE UNCHANGED <<pagos, cuotas, prestamos, transacciones>>
        /\ UNCHANGED <<bitacora, ahora, fueraDePrestamo>>

\* amounts offered to a payment on loan id: nothing, a part, the whole debt and
\* more than the debt when no instalment is named; a part and the instalment
\* with its penalty when instalment c is named
MontosPago(id, c) ==
    IF c \in 1..Len(cuotas)
    THEN {100, cuotas[c].monto_cuota + cuotas[c].monto_mora}
    ELSE {0, 100, prestamos[id].saldo_pendiente, prestamos[id].saldo_pendiente + 1}

\* the calendar moves to the next day
AvanzarDia ==
    /\ Hoy < MaxDia
    /\ ahora' = ahora + HorasPorDia
    /\ resultado' = Resultado("dia", 0, 0, "")
    /\ UNCHANGED <<prestamos, cuotas, pagos, transacciones, bitacora, fueraDePrestamo>>

NextPrestamo ==
    \/ \E socio \in Prestatarios, m \in MontosSolicitados, t \in Tasas, n \in 0..MaxPlazo :
            PrestamosCrear(socio, m, t, n)
    \/ \E id \in 1..Len(prestamos), m \in MontosAprobados : PrestamosAprobar(id, m)
    \/ \E id \in 1..Len(prestamos) : PrestamosRechazar(id)
    \/ \E id \in 1..Len(prestamos) : PrestamosDesembolsar(id)
    \/ \E id \in 1..Len(prestamos), c \in {NULL} \cup (1..Len(cuotas)) :
            \E m \in MontosPago(id, c) : PagosCrear(id, c, m)
    \/ TareasDiarias
    \/ AvanzarDia

SpecPrestamo == Init /\ [][NextPrestamo]_vars

\* Loans whose first payment may be dated the day before the approval, paid
\* instalment by instalment while the days pass and the daily task runs.
TasasMora == {120}
FechasPrimerPago == {Hoy - 1, Hoy}
\* besides the amounts above, one centavo less than the penalty of the
\* instalment when that is a payment at all
MontosMora(id, c) ==
    MontosPago(id, c) \cup {m \in {cuotas[c].monto_mora - 1} : m > 0}

NextMora ==
    \/ \E socio \in Prestatarios, m \in MontosSolicitados, t \in TasasMora,
           n \in 1..MaxPlazo : PrestamosCrear(socio, m, t, n)
    \/ \E id \in 1..Len(prestamos), m \in MontosSolicitados, fecha \in FechasPrimerPago :
            PrestamosAprobarEn(id, m, fecha)
    \/ \E id \in 1..Len(prestamos) : PrestamosDesembolsar(id)
    \/ \E id \in 1..Len(prestamos), c \in 1..Len(cuotas) :
            \E m \in MontosMora(id, c) : PagosCrear(id, c, m)
    \/ TareasDiarias
    \/ AvanzarDia

SpecMora == Init /\ [][NextMora]_vars

\* The same lifecycle where the cashier may type any amount for the instalment
\* named: one centavo, a part, the instalment with its penalty, one centavo more.
MontosCuota(c) ==
    {1, 100, cuotas[c].monto_cuota + cuotas[c].monto_mora,
     cuotas[c].monto_cuota + cuotas[c].monto_mora + 1}

NextPago ==
    \/ \E socio \in Prestatarios, m \in MontosSolicitados, t \in TasasMora,
           n \in 1..MaxPlazo : PrestamosCrear(socio, m, t, n)
    \/ \E id \in 1..Len(prestamos), m \in MontosSolicitados, fecha \in FechasPrimerPago :
            PrestamosAprobarEn(id, m, fecha)
    \/ \E id \in 1..Len(prestamos) : PrestamosDesembolsar(id)
    \/ \E id \in 1..Len(prestamos), c \in 1..Len(cuotas) :
            \E m \in MontosCuota(c) : PagosCrear(id, c, m)
    \/ TareasDiarias
    \/ AvanzarDia

SpecPago == Init /\ [][NextPago]_vars

\* Request and approval alone, over more principals, rates and terms than the
\* full lifecycle above carries.
MaxPlazoTabla == 3     \* plazo_meses offered: 0..MaxPlazoTabla
MontosTabla == {100, 500}
TasasTabla == {0, 120, 240}

NextTabla ==
    \/ \E socio \in Prestatarios, m \in MontosTabla, t \in TasasTabla,
           n \in 0..MaxPlazoTabla : PrestamosCrear(socio, m, t, n)
    \/ \E id \in 1..Len(prestamos), m \in {0} \cup MontosTabla : PrestamosAprobar(id, m)
    \/ \E id \in 1..Len(prestamos) : PrestamosRechazar(id)

SpecTabla == Init /\ [][NextTabla]_vars

\* The amortization engine called directly: the two functions of utils.py and
\* Prestamo.calcular_cuota on an instance that is not saved, next to requests
\* approved with first payment dates at the end of a month.
MaxPlazoMotor == 3     \* terms offered: -MaxPlazoMotor..MaxPlazoMotor

PlazosMotor == (0 - MaxPlazoMotor)..MaxPlazoMotor

\* first payment dates: mid month, the last days of January, of March and of
\* December, and the end of January of a leap year
FechasInicio ==
    {FechaADia([anio |-> f[1], mes |-> f[2], dia |-> f[3]]) :
        f \in {<<2023, 1, 15>>, <<2023, 1, 28>>, <<2023, 1, 29>>, <<2023, 1, 31>>,
               <<2023, 3, 31>>, <<2023, 12, 31>>, <<2024, 1, 31>>}}

\* fecha_pago.replace(month=month + 1), or year + 1 and month 1 after December:
\* ValueError when the next month has no such day
ReemplazarMes(d) ==
    LET f == DiaAFecha(d)
        sig == MesSiguiente(f.anio, f.mes)
    IN  IF f.dia > DiasDelMes(sig[1], sig[2])
        THEN [error |-> "ValueError", valor |-> d]
        ELSE [error |-> "", valor |-> FechaADia([anio |-> sig[1], mes |-> sig[2],
                                                 dia |-> f.dia])]

RECURSIVE ReemplazarMeses(_, _)
\* fecha_pago of utils.generar_tabla_amortizacion after k passes of its loop
ReemplazarMeses(fecha, k) ==
    IF k <= 0 THEN [error |-> "", valor |-> fecha]
    ELSE LET previa == ReemplazarMeses(fecha, k - 1)
         IN  IF previa.error # "" THEN previa ELSE ReemplazarMes(previa.valor)

\* utils.generar_tabla_amortizacion(capital, tasa_anual, plazo_meses, fecha_inicio)
GenerarTablaAmortizacion(capital, tasa_anual, plazo_meses, fecha_inicio) ==
    LET cuota == CalcularCuotaFrancesa(capital, tasa_anual, plazo_meses)
        pr == [monto_aprobado |-> capital, tasa_interes |-> tasa_anual,
               cuota_mensual |-> cuota.valor, fecha_primer_pago |-> fecha_inicio]
    IN  IF cuota.error # "" THEN [error |-> cuota.error, tabla |-> <<>>]
        ELSE IF ReemplazarMeses(fecha_inicio, plazo_meses).error # ""
        THEN [error |-> ReemplazarMeses(fecha_inicio, plazo_meses).error, tabla |-> <<>>]
        ELSE [error |-> "",
              tabla |-> [i \in 1..plazo_meses |->
                LET fila == FilaAmortizacion(NULL, pr, i)
                IN  [numero_cuota |-> i, cuota |-> cuota.valor,
                     capital |-> fila.monto_capital, interes |-> fila.monto_interes,
                     saldo |-> fila.saldo_pendiente,
                     fecha_vencimiento |-> ReemplazarMeses(fecha_inicio, i - 1).valor]]]

\* a call of utils.calcular_cuota_francesa
LlamarCalcularCuotaFrancesa(capital, tasa_anual, plazo_meses) ==
    LET r == CalcularCuotaFrancesa(capital, tasa_anual, plazo_meses)
    IN  /\ resultado' = Resultado("calcular_cuota_francesa", plazo_meses, r.valor, r.error)
        /\ UNCHANGED <<prestamos, cuotas, pagos, transacciones, bitacora, ahora,
                       fueraDePrestamo>>

\* Prestamo(monto_aprobado, tasa_interes, plazo_meses).calcular_cuota() on an
\* instance in memory: it never raises; the outcome carries cuota_mensual
LlamarCalcularCuota(monto_aprobado, tasa_interes, plazo_meses) ==
    LET pr == CalcularCuota([monto_aprobado |-> monto_aprobado,
                             tasa_interes |-> tasa_interes,
                             plazo_meses |-> plazo_meses, cuota_mensual |-> NULL,
                             total_a_pagar |-> NULL, saldo_pendiente |-> 0])
    IN  /\ resultado' = Resultado("calcular_cuota", plazo_meses, pr.cuota_mensual, "")
        /\ UNCHANGED <<prestamos, cuotas, pagos, transacciones, bitacora, ahora,
                       fueraDePrestamo>>

\* a call of utils.generar_tabla_amortizacion; the outcome carries the table
LlamarGenerarTabla(capital, tasa_anual, plazo_meses, fecha_inicio) ==
    LET r == GenerarTablaAmortizacion(capital, tasa_anual, plazo_meses, fecha_inicio)
    IN  /\ resultado' = Resultado("generar_tabla_amortizacion", r.tabla, capital, r.error)
        /\ UNCHANGED <<prestamos, cuotas, pagos, transacciones, bitacora, ahora,
                       fueraDePrestamo>>

NextMotor ==
    \/ \E m \in MontosTabla, t \in TasasTabla, n \in PlazosMotor :
            LlamarCalcularCuotaFrancesa(m, t, n)
    \/ \E m \in MontosTabla, t \in TasasTabla, n \in PlazosMotor :
            LlamarCalcularCuota(m, t, n)
    \/ \E m \in MontosTabla, t \in TasasMora, n \in 1..MaxPlazoMotor,
           fecha \in FechasInicio : LlamarGenerarTabla(m, t, n, fecha)
    \/ \E socio \in Prestatarios, m \in MontosTabla, t \in TasasMora,
           n \in 1..MaxPlazoMotor : PrestamosCrear(socio, m, t, n)
    \/ \E id \in 1..Len(prestamos), fecha \in FechasInicio :
            PrestamosAprobarEn(id, prestamos[id].monto_solicitado, fecha)

SpecMotor == Init /\ [][NextMotor]_vars

\* Guarantors: the loan types of crear_datos_banco, one without guarantors and
\* one that requires CANTIDAD_GARANTES of them, a loan that may be edited while
\* it is under review, and the two guarantor views.
MaxPrestamosGarantes == 1   \* loans requested
CANTIDAD_GARANTES == 2
TipoSinGarantes == 120
TipoConGarantes == 240
SociosGarantes == {1, 2, 3}

\* TipoPrestamo.requiere_garantes / cantidad_garantes of the two types
RequiereGarantes(tipo) == tipo = TipoConGarantes

CantidadGarantes(tipo) == IF tipo = TipoConGarantes THEN CANTIDAD_GARANTES ELSE 0

\* prestamo.garantes.filter(activo=True)
GarantesActivos(id) ==
    {g \in 1..Len(garantes) : garantes[g].prestamo = id /\ garantes[g].activo}

\* prestamos_editar: the state check, PrestamoForm on the instance and form.save(),
\* which writes the fields of the form and leaves tasa_interes as it was
PrestamosEditar(id, socio, tipo, monto, plazo) ==
    LET pr == prestamos[id]
        err == IF ~EstadoRevisable(pr.estado) THEN "estado_invalido"
               ELSE ErrorSolicitud(monto, plazo)
    IN  /\ resultado' = Resultado("prestamos_editar", id, monto, err)
        /\ IF err = ""
           THEN prestamos' = [prestamos EXCEPT ![id].socio = socio,
                                               ![id].tipo_prestamo = tipo,
                                               ![id].monto_solicitado = monto,
                                               ![id].plazo_meses = plazo]
           ELSE UNCHANGED prestamos
        /\ UNCHANGED <<cuotas, pagos, transacciones, bitacora, ahora, fueraDePrestamo>>

\* the choices GaranteForm leaves for socio_garante: neither the borrower nor
\* a member who already has a Garante row of the loan, active or not
SociosElegibles(id) ==
    {s \in SociosGarantes :
        /\ s # prestamos[id].socio
        /\ \A g \in 1..Len(garantes) :
                garantes[g].prestamo = id => garantes[g].socio_garante # s}

\* the checks of garantes_agregar, in the order of the code; "" when none fails
ErrorGarante(id, socio) ==
    IF ~RequiereGarantes(prestamos[id].tipo_prestamo) THEN "no_requiere_garantes"
    ELSE IF Cardinality(GarantesActivos(id)) >= CantidadGarantes(prestamos[id].tipo_prestamo)
         THEN "maximo_garantes"
    ELSE IF socio \notin SociosElegibles(id) THEN "socio_invalido"
    ELSE ""

\* garantes_agregar with the socio_garante and activo fields of GaranteForm
GarantesAgregar(id, socio, activo) ==
    LET err == ErrorGarante(id, socio) IN
    /\ resultado' = Resultado("garantes_agregar", id, socio, err)
    /\ IF err = ""
       THEN garantes' = Append(garantes,
                [prestamo |-> id, socio_garante |-> socio, activo |-> activo])
       ELSE UNCHANGED garantes
    /\ UNCHANGED <<prestamos, cuotas, pagos, transacciones, bitacora, ahora, cuentas,
                   sesiones, varsFondo>>

\* garantes_eliminar: the row stays, no longer active
GarantesEliminar(g) ==
    /\ resultado' = Resultado("garantes_eliminar", garantes[g].prestamo,
                              garantes[g].socio_garante, "")
    /\ garantes' = [garantes EXCEPT ![g].activo = FALSE]
    /\ UNCHANGED <<prestamos, cuotas, pagos, transacciones, bitacora, ahora, cuentas,
                   sesiones, varsFondo>>

NextGarantes ==
    \/ \E socio \in Prestatarios, m \in MontosSolicitados,
           t \in {TipoSinGarantes, TipoConGarantes} :
            /\ Len(prestamos) < MaxPrestamosGarantes
            /\ PrestamosCrear(socio, m, t, 1)
    \/ \E id \in 1..Len(prestamos), socio \in SociosGarantes,
           t \in {TipoSinGarantes, TipoConGarantes}, n \in {0, 1} :
            PrestamosEditar(id, socio, t, prestamos[id].monto_solicitado, n)
    \/ \E id \in 1..Len(prestamos) : PrestamosRechazar(id)
    \/ \E id \in 1..Len(prestamos), socio \in SociosGarantes, activo \in BOOLEAN :
            GarantesAgregar(id, socio, activo)
    \/ \E g \in 1..Len(garantes) : GarantesEliminar(g)

SpecGarantes == Init /\ [][NextGarantes]_vars

\* Two disbursement requests on the same database: prestamos_desembolsar loads
\* its Prestamo instance with get_object_or_404 (no select_for_update), tests
\* the state of that instance and later saves it inside transaction.atomic().
SesionPrestamo(pc, id, obj) == [pc |-> pc, op |-> "desembolsar", prestamo |-> id, obj |-> obj]

\* prestamos_desembolsar up to the state check on the loaded instance
DesembolsarCargar(p, id) ==
    LET pr == prestamos[id] IN
    /\ sesiones[p].pc = "libre"
    /\ IF EstadoDesembolsable(pr.estado)
       THEN /\ resultado' = Resultado("desembolsar_cargar", id, 0, "")
            /\ sesiones' = [sesiones EXCEPT ![p] = SesionPrestamo("cargado", id, pr)]
       ELSE /\ resultado' = Resultado("prestamos_desembolsar", id, 0, "estado_invalido")
            /\ UNCHANGED sesiones
    /\ UNCHANGED <<prestamos, cuotas, pagos, garantes, transacciones, bitacora, ahora,
                   cuentas, varsFondo>>

\* the transaction.atomic() block of prestamos_desembolsar: prestamo.save()
\* writes every field of the loaded instance, then the ledger row is created
DesembolsarGuardar(p) ==
    LET s == sesiones[p] IN
    /\ s.pc = "cargado"
    /\ resultado' = Resultado("prestamos_desembolsar", s.prestamo, 0, "")
    /\ prestamos' = [prestamos EXCEPT ![s.prestamo] =
            [s.obj EXCEPT !.estado = "DESEMBOLSADO", !.fecha_desembolso = Hoy]]
    /\ transacciones' = Append(transacciones,
            NuevaTransaccion(NULL, s.prestamo, "DESEMBOLSO_PRESTAMO",
                             s.obj.monto_aprobado, NULL, NULL, NULL))
    /\ sesiones' = [sesiones EXCEPT ![p] = SesionLibre]
    /\ UNCHANGED <<cuotas, pagos, garantes, bitacora, ahora, cuentas, varsFondo>>

\* request, approval and refusal one at a time; disbursement requests of two
\* cashiers interleave
NextDesembolso ==
    \/ \E socio \in Prestatarios, m \in MontosTabla, t \in TasasMora,
           n \in 1..MaxPlazo : PrestamosCrear(socio, m, t, n)
    \/ \E id \in 1..Len(prestamos), m \in MontosTabla : PrestamosAprobar(id, m)
    \/ \E id \in 1..Len(prestamos) : PrestamosRechazar(id)
    \/ \E p \in Procesos, id \in 1..Len(prestamos) : DesembolsarCargar(p, id)
    \/ \E p \in Procesos : DesembolsarGuardar(p)

SpecDesembolso == Init /\ [][NextDesembolso]_vars

----------------------------------------------------------------------------
(* Properties of the loans *)

\* the state changes a loan may make, with the operation that makes them
AristasPermitidas ==
    {<<"SOLICITADO", "APROBADO", "prestamos_aprobar">>,
     <<"EN_REVISION", "APROBADO", "prestamos_aprobar">>,
     <<"SOLICITADO", "RECHAZADO", "prestamos_rechazar">>,
     <<"EN_REVISION", "RECHAZADO", "prestamos_rechazar">>,
     <<"APROBADO", "DESEMBOLSADO", "prestamos_desembolsar">>,
     <<"DESEMBOLSADO", "EN_PAGO", "pagos_crear">>,
     <<"DESEMBOLSADO", "PAGADO", "pagos_crear">>,
     <<"EN_PAGO", "PAGADO", "pagos_crear">>}

\* the step rejected its operation and left loans, instalments, payments and
\* ledger as they were
PrestamoRechazadoSinCambios ==
    /\ ~resultado'.ok
    /\ UNCHANGED <<prestamos, cuotas, pagos, transacciones>>

\* C9: a loan changes state only along the allowed edges, each by its own
\* operation; approve and reject outside SOLICITADO/EN_REVISION, disburse outside
\* APROBADO and a payment outside DESEMBOLSADO/EN_PAGO are rejected and leave the
\* loan, its instalments and the ledger unchanged.
C9_TransicionesPrestamo ==
    [][\A id \in 1..Len(prestamos) :
        /\ Len(prestamos') >= Len(prestamos)
        /\ prestamos'[id].estado # prestamos[id].estado =>
            /\ resultado'.obj = id
            /\ <<prestamos[id].estado, prestamos'[id].estado, resultado'.op>>
                    \in AristasPermitidas
        /\ (/\ resultado'.obj = id
            /\ resultado'.op \in {"prestamos_aprobar", "prestamos_rechazar"}
            /\ prestamos[id].estado \notin {"SOLICITADO", "EN_REVISION"})
                => PrestamoRechazadoSinCambios
        /\ (/\ resultado'.obj = id
            /\ resultado'.op = "prestamos_desembolsar"
            /\ prestamos[id].estado # "APROBADO")
                => PrestamoRechazadoSinCambios
        /\ (/\ resultado'.obj = id
            /\ resultado'.op = "pagos_crear"
            /\ prestamos[id].estado \notin {"DESEMBOLSADO", "EN_PAGO"})
                => PrestamoRechazadoSinCambios]_vars

\* a loan went through approval, disbursement and two payments to PAGADO, and a
\* further payment on it was just refused for its state
C9_Witness ==
    /\ resultado.op = "pagos_crear" /\ resultado.error = "estado_invalido"
    /\ prestamos[resultado.obj].estado = "PAGADO"
    /\ Len(pagos) = 2
    /\ \E i \in 1..Len(transacciones) :
        transacciones[i].tipo_transaccion = "DESEMBOLSO_PRESTAMO"

\* the instalments of loan id, in the order they were created
CuotasDe(id) == SelectSeq(cuotas, LAMBDA c : c.prestamo = id)

\* sum of monto_capital over a table of instalments
RECURSIVE SumaCapital(_)
SumaCapital(cs) ==
    IF cs = <<>> THEN 0 ELSE cs[1].monto_capital + SumaCapital(Tail(cs))

\* C11: for every approved loan the monto_capital of its instalments add up to
\* the approved principal, within one centavo.
C11_CapitalSumaPrincipal ==
    \A id \in 1..Len(prestamos) :
        prestamos[id].estado = "APROBADO" =>
            LET d == SumaCapital(CuotasDe(id)) - prestamos[id].monto_aprobado
            IN  d \in {0 - 1, 0, 1}

\* C12: an approved loan of term n has exactly n instalments, numbered 1..n in
\* order, each carrying the loan's cuota_mensual, and the last one leaves a
\* saldo_pendiente of 0.
C12_TablaCompleta ==
    \A id \in 1..Len(prestamos) :
        prestamos[id].estado = "APROBADO" =>
            LET cs == CuotasDe(id)
            IN  /\ Len(cs) = prestamos[id].plazo_meses
                /\ \A i \in 1..Len(cs) :
                    /\ cs[i].numero_cuota = i
                    /\ cs[i].monto_cuota = prestamos[id].cuota_mensual
                /\ cs[Len(cs)].saldo_pendiente = 0

\* C10: on any date, calcular_mora applied twice to an instalment gives the same
\* row (monto_mora, dias_mora, estado) as applied once, and the daily sweep run
\* twice gives the same table as run once.
C10_MoraIdempotente ==
    /\ \A i \in 1..Len(cuotas) :
        CalcularMora(CalcularMora(cuotas[i], Hoy), Hoy) = CalcularMora(cuotas[i], Hoy)
    /\ BarridoMora(BarridoMora(cuotas, Hoy), Hoy) = BarridoMora(cuotas, Hoy)

\* the sweep has just run with an instalment one day past due: it is VENCIDA
\* with its penalty accrued
C10_Witness ==
    /\ resultado.op = "tareas_diarias"
    /\ \E i \in 1..Len(cuotas) :
        /\ cuotas[i].estado = "VENCIDA"
        /\ cuotas[i].fecha_vencimiento < Hoy
        /\ cuotas[i].dias_mora = Hoy - cuotas[i].fecha_vencimiento
        /\ cuotas[i].monto_mora > 0

\* C17: a payment of a positive amount on a loan in DESEMBOLSADO or EN_PAGO
\* (for the whole loan or for one of its open instalments) lowers saldo_pendiente
\* by the amount paid, leaves the loan PAGADO exactly when the result is <= 0,
\* otherwise EN_PAGO, and adds one PagoPrestamo and one PAGO_PRESTAMO ledger row
\* of that amount.
C17_PagoAplicado ==
    [][\A id \in 1..Len(prestamos) :
        (/\ resultado'.op = "pagos_crear" /\ resultado'.obj = id
         /\ prestamos[id].estado \in {"DESEMBOLSADO", "EN_PAGO"}
         /\ resultado'.monto > 0
         /\ resultado'.error # "cuota_invalida") =>
            LET saldo == prestamos[id].saldo_pendiente - resultado'.monto IN
            /\ prestamos'[id].saldo_pendiente = saldo
            /\ prestamos'[id].estado = IF saldo <= 0 THEN "PAGADO" ELSE "EN_PAGO"
            /\ Len(pagos') = Len(pagos) + 1
            /\ pagos'[Len(pagos')].prestamo = id
            /\ pagos'[Len(pagos')].monto_pagado = resultado'.monto
            /\ Len(transacciones') = Len(transacciones) + 1
            /\ transacciones'[Len(transacciones')].tipo_transaccion = "PAGO_PRESTAMO"
            /\ transacciones'[Len(transacciones')].prestamo = id
            /\ transacciones'[Len(transacciones')].monto = resultado'.monto]_vars

\* C18: the saldo_pendiente of every loan is >= 0 in every state, and a payment
\* larger than the outstanding balance leaves the stored balance as it was.
C18_SaldoPendienteNoNegativo ==
    /\ [](\A id \in 1..Len(prestamos) : prestamos[id].saldo_pendiente >= 0)
    /\ [][\A id \in 1..Len(prestamos) :
            (/\ resultado'.op = "pagos_crear" /\ resultado'.obj = id
             /\ resultado'.monto > prestamos[id].saldo_pendiente) =>
                /\ prestamos'[id].saldo_pendiente = prestamos[id].saldo_pendiente
                /\ prestamos'[id].saldo_pendiente >= 0]_vars

\* a payment of more than the debt on a loan in repayment has just been refused
\* and the loan still owes what it owed
C18_Witness ==
    /\ resultado.op = "pagos_crear" /\ ~resultado.ok
    /\ prestamos[resultado.obj].estado = "EN_PAGO"
    /\ prestamos[resultado.obj].saldo_pendiente > 0
    /\ resultado.monto > prestamos[resultado.obj].saldo_pendiente

\* the penalty of an instalment of amount monto_cuota that is dias days late
MoraDe(monto_cuota, dias) == RedondearMitadPar(monto_cuota * dias, MORA_DIVISOR)

\* C19: a payment accepted on an instalment that is VENCIDA uses the penalty of
\* the day of payment: the instalment's dias_mora is the number of days from its
\* due date to today, its monto_mora the penalty for those days, and the
\* payment's monto_mora is taken from that amount.
C19_MoraRecalculadaAlPagar ==
    [][(/\ resultado'.op = "pagos_crear" /\ resultado'.ok
        /\ pagos'[Len(pagos')].cuota # NULL
        /\ cuotas[pagos'[Len(pagos')].cuota].estado = "VENCIDA") =>
            LET p == pagos'[Len(pagos')]
                c == p.cuota
                dias == Hoy - cuotas[c].fecha_vencimiento
                mora == MoraDe(cuotas[c].monto_cuota, dias)
            IN  /\ cuotas'[c].dias_mora = dias
                /\ cuotas'[c].monto_mora = mora
                /\ p.monto_mora = IF p.monto_pagado < mora THEN p.monto_pagado ELSE mora]_vars

\* C21: a registered payment on a named instalment for less than monto_cuota +
\* monto_mora is a partial payment: its penalty part is min(amount, monto_mora),
\* the rest is divided between interest and capital in the instalment's
\* monto_interes / monto_cuota ratio (each part to the nearest centavo), and
\* the instalment row is left as it was.
C21_PagoParcial ==
    [][LET p == pagos'[Len(pagos')]
           monto == resultado'.monto
       IN  (/\ resultado'.op = "pagos_crear" /\ resultado'.ok
            /\ p.cuota # NULL
            /\ monto < cuotas[p.cuota].monto_cuota + cuotas[p.cuota].monto_mora) =>
           LET q == cuotas[p.cuota]
               mora == IF monto < q.monto_mora THEN monto ELSE q.monto_mora
               restante == monto - mora
               interes == restante * q.monto_interes
               capital == restante * (q.monto_cuota - q.monto_interes)
           IN  /\ Len(pagos') = Len(pagos) + 1
               /\ p.monto_pagado = monto
               /\ p.monto_mora = mora
               /\ 2 * (p.monto_interes * q.monto_cuota - interes) <= q.monto_cuota
               /\ 2 * (interes - p.monto_interes * q.monto_cuota) <= q.monto_cuota
               /\ 2 * (p.monto_capital * q.monto_cuota - capital) <= q.monto_cuota
               /\ 2 * (capital - p.monto_capital * q.monto_cuota) <= q.monto_cuota
               /\ cuotas' = cuotas]_vars

\* a partial payment of one centavo on an overdue instalment that carries a
\* penalty of two: all of it went to the penalty
C21_Witness ==
    /\ resultado.op = "pagos_crear" /\ resultado.ok /\ resultado.monto = 1
    /\ Len(pagos) > 0
    /\ pagos[Len(pagos)].cuota # NULL
    /\ cuotas[pagos[Len(pagos)].cuota].estado = "VENCIDA"
    /\ cuotas[pagos[Len(pagos)].cuota].monto_mora = 2
    /\ pagos[Len(pagos)].monto_mora = 1
    /\ pagos[Len(pagos)].monto_interes = 0
    /\ pagos[Len(pagos)].monto_capital = 0

\* C22: instalment states only move forward. In every step each instalment
\* keeps its state or goes PENDIENTE -> VENCIDA / PAGADA / PAGADA_TARDE or
\* VENCIDA -> PAGADA_TARDE; a PAGADA or PAGADA_TARDE row is never changed again,
\* and a payment is registered only against a PENDIENTE or VENCIDA instalment.
C22_CuotaSoloAvanza ==
    [][/\ Len(cuotas') >= Len(cuotas)
       /\ \A c \in 1..Len(cuotas) :
            /\ cuotas'[c].prestamo = cuotas[c].prestamo
            /\ cuotas'[c].numero_cuota = cuotas[c].numero_cuota
            /\ \/ cuotas'[c].estado = cuotas[c].estado
               \/ <<cuotas[c].estado, cuotas'[c].estado>> \in
                    {<<"PENDIENTE", "VENCIDA">>, <<"PENDIENTE", "PAGADA">>,
                     <<"PENDIENTE", "PAGADA_TARDE">>, <<"VENCIDA", "PAGADA_TARDE">>}
            /\ cuotas[c].estado \in {"PAGADA", "PAGADA_TARDE"} => cuotas'[c] = cuotas[c]
       /\ Len(pagos') > Len(pagos) =>
            \/ pagos'[Len(pagos')].cuota = NULL
            \/ cuotas[pagos'[Len(pagos')].cuota].estado \in {"PENDIENTE", "VENCIDA"}]_vars

\* an instalment went PENDIENTE -> VENCIDA -> PAGADA_TARDE with one payment, and
\* a second payment aimed at it was refused
C22_Witness ==
    /\ resultado.op = "pagos_crear" /\ resultado.error = "cuota_invalida"
    /\ prestamos[resultado.obj].estado = "EN_PAGO"
    /\ \E c \in 1..Len(cuotas) :
        /\ cuotas[c].estado = "PAGADA_TARDE"
        /\ cuotas[c].dias_mora > 0
        /\ Cardinality({i \in 1..Len(pagos) : pagos[i].cuota = c}) = 1

\* C23: an approval of a positive amount for a loan in review whose annual rate
\* is 0 succeeds with cuota_mensual = monto_aprobado / plazo_meses, rounded, and
\* a schedule of plazo_meses rows whose monto_interes are all 0.
C23_TasaCero ==
    (/\ resultado.op = "prestamos_aprobar"
     /\ resultado.monto > 0
     /\ resultado.error # "estado_invalido"
     /\ prestamos[resultado.obj].tasa_interes = 0) =>
        LET pr == prestamos[resultado.obj]
            cs == CuotasDe(resultado.obj)
        IN  /\ resultado.ok
            /\ pr.estado = "APROBADO"
            /\ pr.cuota_mensual = RedondearMitadPar(resultado.monto, pr.plazo_meses)
            /\ Len(cs) = pr.plazo_meses
            /\ \A i \in 1..Len(cs) : cs[i].monto_interes = 0

\* C24: calcular_cuota_francesa called with plazo_meses <= 0 fails with an
\* invalid-term error, for every capital and rate; it neither returns a value
\* nor fails in another way.
C24_PlazoInvalido ==
    (resultado.op = "calcular_cuota_francesa" /\ resultado.obj <= 0) =>
        resultado.error = "plazo_invalido"

\* C25: in the schedule of an approved loan, and in a table returned by
\* utils.generar_tabla_amortizacion, instalment k is due k - 1 calendar months
\* after the first payment date, on the same day of the month or on the last
\* day of a shorter month; the table generation never fails.
C25_FechasVencimiento ==
    LET \* day number d moved k calendar months ahead, the day of the month
        \* kept or clamped to the last day of the target month
        FechaEsperada(d, k) ==
            LET f == DiaAFecha(d)
                meses == f.anio * 12 + (f.mes - 1) + k
                anio == meses \div 12
                mes == (meses % 12) + 1
            IN  FechaADia([anio |-> anio, mes |-> mes,
                           dia |-> IF f.dia > DiasDelMes(anio, mes)
                                   THEN DiasDelMes(anio, mes) ELSE f.dia])
    IN  /\ \A id \in 1..Len(prestamos) :
            prestamos[id].estado = "APROBADO" =>
                /\ Len(CuotasDe(id)) = prestamos[id].plazo_meses
                /\ \A k \in 1..Len(CuotasDe(id)) :
                    CuotasDe(id)[k].fecha_vencimiento
                        = FechaEsperada(prestamos[id].fecha_primer_pago, k - 1)
        /\ resultado.op = "generar_tabla_amortizacion" =>
                /\ resultado.ok
                /\ \A k \in 1..Len(resultado.obj) :
                    resultado.obj[k].fecha_vencimiento
                        = FechaEsperada(resultado.obj[1].fecha_vencimiento, k - 1)

\* the DESEMBOLSO_PRESTAMO rows of loan id
Desembolsos(id) ==
    {i \in 1..Len(transacciones) :
        /\ transacciones[i].tipo_transaccion = "DESEMBOLSO_PRESTAMO"
        /\ transacciones[i].prestamo = id}

\* C33: a loan is disbursed at most once: the ledger holds at most one
\* DESEMBOLSO_PRESTAMO row per loan and its amount is the approved amount of
\* the loan, also when two disbursement requests for the same APROBADO loan
\* interleave.
C33_DesembolsoUnico ==
    \A id \in 1..Len(prestamos) :
        /\ Cardinality(Desembolsos(id)) <= 1
        /\ \A i \in Desembolsos(id) : transacciones[i].monto = prestamos[id].monto_aprobado

\* C34: no active guarantor of a loan is the borrower of that loan, no member
\* has two guarantor rows of the same loan, and a loan never has more active
\* guarantors than its type requires, whatever the sequence of loan creation,
\* loan edit, guarantor add and guarantor remove.
C34_Garantes ==
    /\ \A g \in 1..Len(garantes) :
            garantes[g].activo
                => garantes[g].socio_garante # prestamos[garantes[g].prestamo].socio
    /\ \A g, h \in 1..Len(garantes) :
            (g # h /\ garantes[g].prestamo = garantes[h].prestamo)
                => garantes[g].socio_garante # garantes[h].socio_garante
    /\ \A id \in 1..Len(prestamos) :
            Cardinality(GarantesActivos(id)) <= CantidadGarantes(prestamos[id].tipo_prestamo)

\* C37: a loan in state PAGADO has every one of its instalments PAGADA or
\* PAGADA_TARDE: no sequence of payments, with or without an instalment named,
\* full or partial, brings a loan to PAGADO while one of its instalments is
\* still PENDIENTE or VENCIDA.
C37_PagadoSinCuotasAbiertas ==
    \A id \in 1..Len(prestamos) :
        prestamos[id].estado = "PAGADO"
            => \A c \in 1..Len(cuotas) :
                    cuotas[c].prestamo = id
                        => cuotas[c].estado \in {"PAGADA", "PAGADA_TARDE"}

\* C38: every payment applied to a named instalment is accounted for in full:
\* its monto_capital + monto_interes + monto_mora equals its monto_pagado, for
\* a payment that covers the instalment (also one above monto_cuota +
\* monto_mora) and for a partial one alike, and no component is negative.
C38_PagoDesglosado ==
    \A i \in 1..Len(pagos) :
        pagos[i].cuota # NULL
            => /\ pagos[i].monto_capital + pagos[i].monto_interes + pagos[i].monto_mora
                    = pagos[i].monto_pagado
               /\ pagos[i].monto_capital >= 0
               /\ pagos[i].monto_interes >= 0
               /\ pagos[i].monto_mora >= 0

\* C20: a payment accepted on an instalment for at least monto_cuota + monto_mora
\* records the instalment's capital, interest and penalty, and leaves the
\* instalment PAGADA when it is paid by its due date and PAGADA_TARDE when it is
\* paid after it.
C20_PagoCompleto ==
    [][(/\ resultado'.op = "pagos_crear" /\ resultado'.ok
        /\ pagos'[Len(pagos')].cuota # NULL
        /\ resultado'.monto >= cuotas[pagos'[Len(pagos')].cuota].monto_cuota
                                + cuotas[pagos'[Len(pagos')].cuota].monto_mora) =>
            LET p == pagos'[Len(pagos')]
                c == p.cuota
            IN  /\ p.monto_capital = cuotas[c].monto_capital
                /\ p.monto_interes = cuotas[c].monto_interes
                /\ p.monto_mora = cuotas[c].monto_mora
                /\ cuotas'[c].estado = IF Hoy > cuotas[c].fecha_vencimiento
                                       THEN "PAGADA_TARDE" ELSE "PAGADA"]_vars

----------------------------------------------------------------------------
(* Atomicity of the operations that move a balance *)

\* every table the operations write
DatosPersistidos ==
    <<cuentas, transacciones, bitacora, fondos, movimientos, solicitudes,
      prestamos, cuotas, pagos>>

====
